---- MODULE Spec2Model ----
(***************************************************************************)
(* InkluDocs: the orchestrator of backend/main.py (upload, generate, the   *)
(* background task _process_project, alt-text edit, export, delete) over   *)
(* the SQLite catalog of backend/database.py, with the model client        *)
(* generate_alt_text and the writer's save of backend/pdf_processor.py.    *)
(*                                                                         *)
(* The server is one asyncio event loop: a handler runs from one await to  *)
(* the next without interleaving; generate_alt_text runs on an executor    *)
(* thread beside the loop.  Every transaction of the code begins and       *)
(* commits between two awaits, so an action is one such run and the        *)
(* variables projects and images are the committed catalog.                *)
(***************************************************************************)
EXTENDS Integers, Sequences, FiniteSets, Bags, TLC

VARIABLES
    projects,       \* table projects: id -> row (committed)
    images,         \* table images: project id -> rows in (page_number, image_index) order
    nextProjectId,  \* AUTOINCREMENT counter of projects.id
    disk,           \* per project: source PDF, extracted image files, export output file
    tasks,          \* the running background tasks (asyncio.create_task), in creation order
    loop,           \* what the event loop thread is blocked in (upload and export are synchronous)
    taskEnd,        \* history: how the last ended task of each project ended: "none" (none has),
                    \* "finished", "pil_error" or "file_missing" (the exception), "killed" (crash)
    parser,         \* one call of the response parser in generate_alt_text: reply in, record out
    writer,         \* one call of write_alt_texts_to_pdf: its locals and the document it builds
    clusterer,      \* one call of _cluster_drawings: its locals
    extractor,      \* one call of extract_images_from_pdf: its locals and the files it writes
    escaper,        \* one call of _escape_pdf_string: text in, literal out
    limiter,        \* the login handler: clock, _login_attempts and the requests in flight
    accounts,       \* the password reset handlers: clock, tables users and password_resets
    tenancy         \* the handlers as two users call them: catalog with owners, files, tasks

vars == <<projects, images, nextProjectId, disk, tasks, loop, taskEnd, parser, writer, clusterer, extractor, escaper, limiter, accounts, tenancy>>

----------------------------------------------------------------------------
(* Bounds *)

MaxProjects == 1    \* uploads over a run (project ids 1..MaxProjects)

ProjectIds == 1..MaxProjects

----------------------------------------------------------------------------
(* Values *)

NULL == "NULL"                      \* SQL NULL / Python None
EditTexts == {"", "E"}              \* bodies of update_alt_text requests
Replies == {"json", "network_error", "timeout"}   \* what the POST to the model does

\* Source PDFs a user uploads, by what extract_images_from_pdf finds in them.
Documents == {"corrupt", "no_images", "one_raster", "raster_and_vector"}

\* The image an update_alt_text request names: the first of its project.
ImageIndexes == {1}

\* Uploads that upload_pdf refuses before touching disk or catalog.
RefusedUploads == {"not_pdf", "too_large"}

----------------------------------------------------------------------------
(* Catalog helpers *)

Put(f, k, v) == [x \in DOMAIN f \cup {k} |-> IF x = k THEN v ELSE f[x]]

Drop(f, k) == [x \in DOMAIN f \ {k} |-> f[x]]

\* database.py init_db: column defaults of a new images row.
NewImageRow(xref) ==
    [status |-> "pending", alt_text |-> "", image_type |-> "unknown",
     alt_text_edited |-> NULL, xref |-> xref]

\* database.py init_db: column defaults of a new projects row, status as inserted by upload_pdf.
NewProjectRow ==
    [status |-> "extracting", total_images |-> 0, processed_images |-> 0]

\* pdf: the uploaded document ("absent": none); imgs: the extracted image files
\* exist; out: the file at the export output path.
EmptyDisk == [pdf |-> "absent", imgs |-> FALSE, out |-> "absent"]

\* pdf_processor.py 128-139, 188-191: the images extract_images_from_pdf comes
\* to in the document (a raster xref, or the synthetic xref of a vector cluster).
ImagesIn(doc) ==
    CASE doc = "one_raster"        -> <<7>>
      [] doc = "raster_and_vector" -> <<7, 900001>>
      [] OTHER                     -> <<>>

\* pdf_processor.py 142-180, 207-237: each image is written inside a try whose
\* except prints and continues, so an image whose write fails is left out.
WriteFailure(found, storageFull) ==
    [raised |-> FALSE, xrefs |-> IF storageFull THEN <<>> ELSE found]

\* extract_images_from_pdf: the xrefs of the descriptors it returns, or the
\* exception of fitz.open (pdf_processor.py 124, outside every try).
extract_images_from_pdf(doc, storageFull) ==
    IF doc = "corrupt"
    THEN [raised |-> TRUE, xrefs |-> <<>>]
    ELSE WriteFailure(ImagesIn(doc), storageFull)

----------------------------------------------------------------------------
(* Initial state: empty catalog (init_db), nothing on disk, idle server *)

Idle == [op |-> "idle", p |-> 0, doc |-> "", map |-> <<>>]

\* No call of the function, or no handler of the section, is being followed.
NotCalled == [pc |-> "off"]

Init ==
    /\ projects = <<>>
    /\ images = <<>>
    /\ nextProjectId = 1
    /\ disk = [p \in ProjectIds |-> EmptyDisk]
    /\ tasks = <<>>
    /\ loop = Idle
    /\ taskEnd = [p \in ProjectIds |-> "none"]
    /\ parser = NotCalled
    /\ writer = NotCalled
    /\ clusterer = NotCalled
    /\ extractor = NotCalled
    /\ escaper = NotCalled
    /\ limiter = NotCalled
    /\ accounts = NotCalled
    /\ tenancy = NotCalled

----------------------------------------------------------------------------
(* upload_pdf *)

\* main.py 326-332: refused before anything is written.
UploadRefused(kind) ==
    /\ loop.op = "idle"
    /\ kind \in RefusedUploads
    /\ UNCHANGED vars

\* main.py 334-356: the PDF is written, the row is inserted with status
\* 'extracting' and committed; extraction then runs synchronously on the loop.
UploadBegin(doc) ==
    /\ loop.op = "idle"
    /\ nextProjectId <= MaxProjects
    /\ LET p == nextProjectId IN
        /\ projects' = Put(projects, p, NewProjectRow)
        /\ images' = Put(images, p, <<>>)
        /\ nextProjectId' = p + 1
        /\ disk' = [disk EXCEPT ![p].pdf = doc]
        /\ loop' = [op |-> "upload", p |-> p, doc |-> doc, map |-> <<>>]
    /\ UNCHANGED <<tasks, taskEnd, parser, writer, clusterer, extractor, escaper, limiter, accounts, tenancy>>

\* Mutant of TotalImages: the count is one more than the descriptors.
TotalImagesOneMore(xrefs) == Len(xrefs) + 1

\* main.py 375-378: total_images = len(images)
TotalImages(xrefs) == Len(xrefs)

\* main.py 358-387: extraction fails -> status 'error' (500); else the image
\* rows and status 'extracted' with total_images commit together (200).
UploadExtract ==
    /\ loop.op = "upload"
    /\ \E storageFull \in BOOLEAN :
       LET p == loop.p
           ex == extract_images_from_pdf(loop.doc, storageFull)
       IN IF ex.raised
          THEN /\ projects' = [projects EXCEPT ![p].status = "error"]
               /\ UNCHANGED <<images, disk>>
          ELSE /\ images' = [images EXCEPT ![p] = [k \in 1..Len(ex.xrefs) |-> NewImageRow(ex.xrefs[k])]]
               /\ projects' = [projects EXCEPT ![p].status = "extracted",
                                               ![p].total_images = TotalImages(ex.xrefs)]
               /\ disk' = [disk EXCEPT ![p].imgs = TRUE]
    /\ loop' = Idle
    /\ UNCHANGED <<nextProjectId, tasks, taskEnd, parser, writer, clusterer, extractor, escaper, limiter, accounts, tenancy>>

----------------------------------------------------------------------------
(* get_project_status, delete_project, update_alt_text *)

\* main.py 504-517
get_project_status(p) ==
    /\ loop.op = "idle"
    /\ p \in ProjectIds
    /\ UNCHANGED vars

\* Mutant of DeleteFiles: the extracted images are left behind.
DeleteFilesKeepsImages(d) == [d EXCEPT !.pdf = "absent", !.out = "absent"]

\* main.py 421-426: rmtree of the project's results directory (extracted
\* images and export output) and removal of the source PDF.
DeleteFiles(d) == EmptyDisk

\* main.py 411-432
delete_project(p) ==
    /\ loop.op = "idle"
    /\ IF p \in DOMAIN projects
       THEN /\ disk' = [disk EXCEPT ![p] = DeleteFiles(disk[p])]
            /\ images' = Drop(images, p)
            /\ projects' = Drop(projects, p)
       ELSE UNCHANGED <<projects, images, disk>>
    /\ UNCHANGED <<nextProjectId, tasks, loop, taskEnd, parser, writer, clusterer, extractor, escaper, limiter, accounts, tenancy>>

\* main.py 520-540: alt_text_edited := data.get("alt_text", "")
update_alt_text(p, k, text) ==
    /\ loop.op = "idle"
    /\ IF p \in DOMAIN images /\ k \in DOMAIN images[p]
       THEN images' = [images EXCEPT ![p][k].alt_text_edited = text]
       ELSE UNCHANGED images
    /\ UNCHANGED <<projects, nextProjectId, disk, tasks, loop, taskEnd, parser, writer, clusterer, extractor, escaper, limiter, accounts, tenancy>>

----------------------------------------------------------------------------
(* generate_alt_texts and the background task _process_project *)

\* Mutant of GenerateAccepts: no status refuses a generate request.
GenerateAcceptsAlways(row) == row.status = row.status

\* main.py 460: the only status that refuses a generate request (409).
GenerateAccepts(row) == row.status # "processing"

\* main.py 468, 479: a task as created; imgs is the list it selects when it
\* first runs, pos the iteration it is in, processed its local counter.
NewTask(p) == [p |-> p, pc |-> "new", imgs |-> <<>>, pos |-> 0, processed |-> 0]

RemoveAt(seq, i) == SubSeq(seq, 1, i - 1) \o SubSeq(seq, i + 1, Len(seq))

TasksOf(p) == {i \in DOMAIN tasks : tasks[i].p = p}

\* Positions in tasks: one running task per project, and one more.
TaskSlots == 1..(MaxProjects + 1)

\* main.py 450-469: 404 for a project that does not exist, 409 for one that
\* is processing; else status 'processing' is committed and the task created.
generate_alt_texts(p) ==
    /\ loop.op = "idle"
    /\ IF p \in DOMAIN projects /\ GenerateAccepts(projects[p])
       THEN /\ projects' = [projects EXCEPT ![p].status = "processing"]
            /\ tasks' = Append(tasks, NewTask(p))
       ELSE UNCHANGED <<projects, tasks>>
    /\ UNCHANGED <<images, nextProjectId, disk, loop, taskEnd, parser, writer, clusterer, extractor, escaper, limiter, accounts, tenancy>>

\* main.py 474-477: SELECT ... WHERE project_id = ? AND status = 'pending' ORDER BY page_number, image_index
RECURSIVE PendingFrom(_, _)
PendingFrom(rows, k) ==
    IF k > Len(rows) THEN <<>>
    ELSE IF rows[k].status = "pending" THEN <<k>> \o PendingFrom(rows, k + 1)
    ELSE PendingFrom(rows, k + 1)

\* Mutant of SelectPending: ORDER BY page_number DESC, image_index DESC.
SelectPendingDescending(p) ==
    IF p \in DOMAIN images
    THEN LET up == PendingFrom(images[p], 1)
         IN [n \in DOMAIN up |-> up[Len(up) + 1 - n]]
    ELSE <<>>

SelectPending(p) == IF p \in DOMAIN images THEN PendingFrom(images[p], 1) ELSE <<>>

\* main.py 481-482: UPDATE images SET status = 'processing' WHERE id = ? (no row, no effect)
MarkProcessing(imgs, p, k) ==
    IF p \in DOMAIN imgs THEN [imgs EXCEPT ![p][k].status = "processing"] ELSE imgs

\* main.py 499-500: UPDATE projects SET status = 'done' WHERE id = ? (no row, no effect)
MarkDone(prjs, p) ==
    IF p \in DOMAIN prjs THEN [prjs EXCEPT ![p].status = "done"] ELSE prjs

\* Mutant of CounterAfter: the counter is written before it is incremented.
CounterAfterStale(processed) == processed

\* main.py 492: processed += 1, before the counter is written
CounterAfter(processed) == processed + 1

\* Mutant of StoreResult: the UPDATE also sets alt_text_edited to NULL.
StoreResultClearsEdit(imgs, p, k, result) ==
    IF p \in DOMAIN imgs
    THEN [imgs EXCEPT ![p][k].alt_text = result.alt_text,
                      ![p][k].image_type = result.bildtyp,
                      ![p][k].alt_text_edited = NULL,
                      ![p][k].status = "done"]
    ELSE imgs

\* main.py 488-497: the image row and the project's counter, one transaction
\* (no row, no effect).
StoreResult(imgs, p, k, result) ==
    IF p \in DOMAIN imgs
    THEN [imgs EXCEPT ![p][k].alt_text = result.alt_text,
                      ![p][k].image_type = result.bildtyp,
                      ![p][k].status = "done"]
    ELSE imgs

StoreCounter(prjs, p, processed) ==
    IF p \in DOMAIN prjs THEN [prjs EXCEPT ![p].processed_images = processed] ELSE prjs

\* pdf_processor.py 269-271, 291: _resize_image_for_model opens the file outside
\* generate_alt_text's try block.
ResizeRaises(fileExists, pilOpens) == ~(fileExists /\ pilOpens)

\* pdf_processor.py 289-427: what generate_alt_text gives the orchestrator.
generate_alt_text(readable, reply) ==
    IF ~readable
    THEN [raised |-> TRUE, bildtyp |-> "", alt_text |-> ""]
    ELSE IF reply = "json"
    THEN [raised |-> FALSE, bildtyp |-> "foto", alt_text |-> "A"]
    ELSE [raised |-> FALSE, bildtyp |-> "fehler", alt_text |-> "Fehler bei der Analyse"]

\* The loop body from the top of an iteration to its await (main.py 480-486),
\* or the end of the function when no image is left (main.py 499-501).
Continue(t, i, prjs, imgs) ==
    IF t.pos < Len(t.imgs)
    THEN /\ images' = MarkProcessing(imgs, t.p, t.imgs[t.pos + 1])
         /\ projects' = prjs
         /\ tasks' = [tasks EXCEPT ![i] = [t EXCEPT !.pos = t.pos + 1, !.pc = "resize"]]
         /\ UNCHANGED taskEnd
    ELSE /\ images' = imgs
         /\ projects' = MarkDone(prjs, t.p)
         /\ tasks' = RemoveAt(tasks, i)
         /\ taskEnd' = [taskEnd EXCEPT ![t.p] = "finished"]

\* main.py 472-486: the task's first run on the loop, up to its first await.
TaskStart(i) ==
    /\ loop.op = "idle"
    /\ i \in DOMAIN tasks
    /\ tasks[i].pc = "new"
    /\ Continue([tasks[i] EXCEPT !.imgs = SelectPending(tasks[i].p)], i, projects, images)
    /\ UNCHANGED <<nextProjectId, disk, loop, parser, writer, clusterer, extractor, escaper, limiter, accounts, tenancy>>

\* pdf_processor.py 291: on the executor thread, beside the loop. The file is
\* gone after delete_project (FileNotFoundError); PIL may also fail on a file
\* that exists. The exception ends the task (main.py 484: nothing catches it).
TaskReadImage(i) ==
    /\ i \in DOMAIN tasks
    /\ tasks[i].pc = "resize"
    /\ \E pilOpens \in BOOLEAN :
         LET t == tasks[i]
             readable == ~ResizeRaises(disk[t.p].imgs, pilOpens)
         IN IF generate_alt_text(readable, "json").raised
            THEN /\ tasks' = RemoveAt(tasks, i)
                 /\ taskEnd' = [taskEnd EXCEPT ![t.p] =
                                    IF disk[t.p].imgs THEN "pil_error" ELSE "file_missing"]
            ELSE /\ tasks' = [tasks EXCEPT ![i].pc = "post"]
                 /\ UNCHANGED taskEnd
    /\ UNCHANGED <<projects, images, nextProjectId, disk, loop, parser, writer, clusterer, extractor, escaper, limiter, accounts, tenancy>>

\* main.py 484-497: the model call returns; result and counter are committed,
\* then the next iteration runs to its await.
TaskResume(i) ==
    /\ loop.op = "idle"
    /\ i \in DOMAIN tasks
    /\ tasks[i].pc = "post"
    /\ \E reply \in Replies :
         LET t == tasks[i]
             result == generate_alt_text(TRUE, reply)
             processed == CounterAfter(t.processed)
         IN Continue([t EXCEPT !.processed = processed], i,
                     StoreCounter(projects, t.p, processed),
                     StoreResult(images, t.p, t.imgs[t.pos], result))
    /\ UNCHANGED <<nextProjectId, disk, loop, parser, writer, clusterer, extractor, escaper, limiter, accounts, tenancy>>

----------------------------------------------------------------------------
(* export_pdf and the writer's save *)

\* main.py 560: "x if x else y" takes y for None and for the empty string
Truthy(s) == s # NULL /\ s # ""

\* main.py 558-562
RECURSIVE BuildAltTexts(_, _)
BuildAltTexts(rows, k) ==
    IF k = 0 THEN <<>>
    ELSE LET m == BuildAltTexts(rows, k - 1)
             img == rows[k]
             alt_text == IF Truthy(img.alt_text_edited) THEN img.alt_text_edited ELSE img.alt_text
         IN IF alt_text # NULL /\ img.xref # 0 THEN Put(m, img.xref, alt_text) ELSE m

\* Mutant of SaveTo: the writer saves over the file it opened.
SaveOverSource(d, content) == [d EXCEPT !.pdf = content]

\* main.py 564-570, pdf_processor.py 464, 547: doc.save(output_path), the path
\* inkludocs_<filename> in the project's results directory.
SaveTo(d, content) == [d EXCEPT !.out = content]

\* main.py 543-572, pdf_processor.py 437, 464, 547: 404 for a project that does
\* not exist; fitz.open of an unreadable source raises before anything is
\* written (500); otherwise doc.save(output_path) starts writing the file at
\* the output path itself.
ExportBegin(p) ==
    /\ loop.op = "idle"
    /\ IF p \in DOMAIN projects /\ disk[p].pdf # "corrupt"
       THEN /\ disk' = [disk EXCEPT ![p] = SaveTo(disk[p], "partial")]
            /\ loop' = [op |-> "export", p |-> p, doc |-> "",
                        map |-> BuildAltTexts(images[p], Len(images[p]))]
       ELSE UNCHANGED <<disk, loop>>
    /\ UNCHANGED <<projects, images, nextProjectId, tasks, taskEnd, parser, writer, clusterer, extractor, escaper, limiter, accounts, tenancy>>

\* pdf_processor.py 547-549, main.py 571-578: save completes (200, FileResponse)
\* or raises (500) and leaves what it had written.
ExportFinish ==
    /\ loop.op = "export"
    /\ \E saved \in BOOLEAN :
         IF saved
         THEN disk' = [disk EXCEPT ![loop.p] = SaveTo(disk[loop.p], "complete")]
         ELSE UNCHANGED disk
    /\ loop' = Idle
    /\ UNCHANGED <<projects, images, nextProjectId, tasks, taskEnd, parser, writer, clusterer, extractor, escaper, limiter, accounts, tenancy>>

----------------------------------------------------------------------------
(* The server process dies: tasks, the running handler and its open
   connection are lost; the committed catalog and the disk stay. *)
Crash ==
    /\ tasks' = <<>>
    /\ taskEnd' = [p \in ProjectIds |-> IF TasksOf(p) # {} THEN "killed" ELSE taskEnd[p]]
    /\ loop' = Idle
    /\ UNCHANGED <<projects, images, nextProjectId, disk, parser, writer, clusterer, extractor, escaper, limiter, accounts, tenancy>>

----------------------------------------------------------------------------
Next ==
    \/ \E kind \in RefusedUploads : UploadRefused(kind)
    \/ \E doc \in Documents : UploadBegin(doc)
    \/ UploadExtract
    \/ \E p \in ProjectIds : get_project_status(p)
    \/ \E p \in ProjectIds : delete_project(p)
    \/ \E p \in ProjectIds : generate_alt_texts(p)
    \/ \E i \in TaskSlots : TaskStart(i)
    \/ \E i \in TaskSlots : TaskReadImage(i)
    \/ \E i \in TaskSlots : TaskResume(i)
    \/ \E p \in ProjectIds, k \in ImageIndexes, text \in EditTexts : update_alt_text(p, k, text)
    \/ \E p \in ProjectIds : ExportBegin(p)
    \/ ExportFinish
    \/ Crash

Spec == Init /\ [][Next]_vars

----------------------------------------------------------------------------
(* write_alt_texts_to_pdf (pdf_processor.py 435-549), followed on its own.

   A document is its pages in order.  A page is what the writer reads of it:
   images, the (xref, resource name) pairs page.get_images gives after
   clean_contents, and content, the operators page.read_contents gives.
   Texts are sequences of characters. *)

orchestratorVars == <<projects, images, nextProjectId, disk, tasks, loop, taskEnd>>

Tok(op) == [op |-> op, name |-> "", mcid |-> 0]
Do(name) == [op |-> "Do", name |-> name, mcid |-> 0]
BDC(mcid) == [op |-> "BDC", name |-> "Figure", mcid |-> mcid]

Img(xref, name) == [xref |-> xref, name |-> name]
\* streams: the number of content stream objects of the page
Page(imgs, content) ==
    [images |-> imgs, content |-> content, streams |-> IF content = <<>> THEN 0 ELSE 1]

\* A page whose /Contents is an array of two streams
SplitPage(imgs, first, second) ==
    [images |-> imgs, content |-> first \o second, streams |-> 2]

\* "q <matrix> cm /name Do Q": an image drawn inside its own q ... Q
Enclosed(name) == <<Tok("q"), Tok("cm"), Do(name), Tok("Q")>>

\* Source documents handed to the writer.
WriterDocs ==
    { <<Page(<<>>, <<>>)>>,
      <<Page(<<Img(7, "Im1")>>, Enclosed("Im1"))>>,
      <<Page(<<Img(7, "Im1"), Img(8, "Im2")>>, Enclosed("Im1") \o Enclosed("Im2"))>>,
      <<Page(<<>>, <<>>), Page(<<Img(7, "Im1")>>, Enclosed("Im1"))>>,
      <<Page(<<Img(8, "Im1")>>, Enclosed("Im1")),
        Page(<<Img(7, "Im1"), Img(8, "Im2")>>, Enclosed("Im1") \o Enclosed("Im2"))>>,
      <<Page(<<Img(7, "Im1")>>, Enclosed("Im1")), Page(<<Img(7, "Im1")>>, Enclosed("Im1"))>>,
      <<Page(<<Img(7, "Im1"), Img(7, "Im2")>>, Enclosed("Im1") \o Enclosed("Im2"))>>,
      <<Page(<<Img(900001, "Im1")>>, Enclosed("Im1"))>>,
      <<Page(<<Img(7, "Im1")>>, <<Tok("cm"), Do("Im1")>>)>>,
      <<Page(<<Img(7, "Im1")>>, <<Tok("q"), Tok("cm"), Tok("Q"), Do("Im1")>>)>>,
      <<SplitPage(<<Img(7, "Im1")>>, <<Tok("q"), Tok("cm")>>, <<Do("Im1"), Tok("Q")>>)>> }

Dekorativ == <<"d", "e", "k", "o", "r", "a", "t", "i", "v">>

\* None as a value of the map
NoText == <<NULL>>

\* The maps export_pdf hands over (xref -> text, main.py 558-562), and one
\* with a None value.
WriterMaps ==
    { <<>>,
      7 :> NoText,
      7 :> <<"A">>,
      7 :> <<"A">> @@ 8 :> <<"(", "b", ")">>,
      7 :> Dekorativ,
      8 :> <<>>,
      900001 :> <<"V">>,
      7 :> <<"a", "\\", "b">> @@ 900001 :> <<"V">> }

\* str.replace(old, new) for a one-character old
RECURSIVE Replace(_, _, _)
Replace(text, old, new) ==
    IF text = <<>> THEN <<>>
    ELSE (IF Head(text) = old THEN new ELSE <<Head(text)>>) \o Replace(Tail(text), old, new)

\* Mutant of escape_pdf_string: the backslash is doubled last.
escape_parentheses_first(text) ==
    Replace(Replace(Replace(text, "(", <<"\\", "(">>), ")", <<"\\", ")">>), "\\", <<"\\", "\\">>)

\* pdf_processor.py 430-432
escape_pdf_string(text) ==
    Replace(Replace(Replace(text, "\\", <<"\\", "\\">>), "(", <<"\\", "(">>), ")", <<"\\", ")">>)

\* Mutant of NormalizeAlt: the text is written as stored.
NormalizeAltKeeps(alt_text) == alt_text

\* pdf_processor.py 450-451
NormalizeAlt(alt_text) == IF alt_text = Dekorativ THEN <<>> ELSE alt_text

\* pdf_processor.py 448
Mapped(alt_texts, xref) == xref \in DOMAIN alt_texts /\ alt_texts[xref] # NoText

\* pdf_processor.py 444: page.clean_contents() leaves one content stream
clean_contents(page) == [page EXCEPT !.streams = IF page.streams > 1 THEN 1 ELSE page.streams]

\* pdf_processor.py 445-454: the page's images that are keys of the map, in
\* the order of page.get_images.
RECURSIVE CollectPage(_, _, _)
CollectPage(imgs, alt_texts, k) ==
    IF k = 0 THEN <<>>
    ELSE LET rest == CollectPage(imgs, alt_texts, k - 1)
             img == imgs[k]
         IN IF Mapped(alt_texts, img.xref)
            THEN Append(rest, [xref |-> img.xref, img_name |-> img.name,
                               alt_text |-> NormalizeAlt(alt_texts[img.xref])])
            ELSE rest

Collected(doc, alt_texts, page_num) ==
    CollectPage(doc[page_num + 1].images, alt_texts, Len(doc[page_num + 1].images))

\* pdf_processor.py 441-454: page_images, keyed by the zero-based page number
CollectImages(doc, alt_texts) ==
    [page_num \in {n \in 0..(Len(doc) - 1) : Collected(doc, alt_texts, n) # <<>>}
        |-> Collected(doc, alt_texts, page_num)]

\* pdf_processor.py 456-461: the /Alt key set on the image XObjects
SetXObjectAlt(page_images) ==
    LET hits == UNION {{page_images[n][k] : k \in DOMAIN page_images[n]} : n \in DOMAIN page_images}
    IN [x \in {h.xref : h \in hits}
          |-> escape_pdf_string((CHOOSE h \in hits : h.xref = x).alt_text)]

\* Mutant of NextMcid: content ids are counted from one.
NextMcidFromOne(figs) == Len(figs) + 1

\* pdf_processor.py 482: mcid = len(page_figures[page_num])
NextMcid(figs) == Len(figs)

\* pdf_processor.py 480-491: the /Figure elements of one page; xref and
\* img_name are the image the element was made for.
RECURSIVE FiguresOfPage(_, _, _)
FiguresOfPage(items, page_num, k) ==
    IF k = 0 THEN <<>>
    ELSE LET figs == FiguresOfPage(items, page_num, k - 1)
         IN Append(figs, [S |-> "Figure", Pg |-> page_num,
                          Alt |-> escape_pdf_string(items[k].alt_text),
                          MCID |-> NextMcid(figs),
                          xref |-> items[k].xref, img_name |-> items[k].img_name])

\* pdf_processor.py 476-491: the elements of pages 0..n-1 in creation order;
\* an element's position stands for its object number fig_xref.
RECURSIVE BuildFigures(_, _)
BuildFigures(page_images, n) ==
    IF n = 0 THEN <<>>
    ELSE BuildFigures(page_images, n - 1)
         \o (IF n - 1 \in DOMAIN page_images
             THEN FiguresOfPage(page_images[n - 1], n - 1, Len(page_images[n - 1]))
             ELSE <<>>)

\* pdf_processor.py 474, 491: page_figures
PageFigures(page_images) ==
    [page_num \in DOMAIN page_images |->
        LET figs == FiguresOfPage(page_images[page_num], page_num, Len(page_images[page_num]))
            first == Len(BuildFigures(page_images, page_num))
        IN [k \in DOMAIN figs |-> [mcid |-> figs[k].MCID, fig_xref |-> first + k,
                                   img_name |-> figs[k].img_name]]]

\* pdf_processor.py 499-506: /Nums, one "page_num [refs]" part per page of
\* page_figures in ascending order.
RECURSIVE NumsParts(_, _)
NumsParts(page_figures, n) ==
    IF n = 0 THEN <<>>
    ELSE NumsParts(page_figures, n - 1)
         \o (IF n - 1 \in DOMAIN page_figures
             THEN <<[key |-> n - 1,
                     refs |-> [k \in DOMAIN page_figures[n - 1] |-> page_figures[n - 1][k].fig_xref]]>>
             ELSE <<>>)

\* pdf_processor.py 520: StructParents of the page
StructParentsKey(page_num) == page_num

\* pdf_processor.py 529-530: re.search of (q\s[^Q]*?/name\s+Do\s*Q). From a q at
\* i, the first "/name Do" directly followed by Q with no Q in between; 0: none.
MatchEnd(content, i, name) ==
    LET ends == {j \in (i + 1)..(Len(content) - 1) :
                    /\ content[j] = Do(name)
                    /\ content[j + 1].op = "Q"
                    /\ \A m \in (i + 1)..(j - 1) : content[m].op # "Q"}
    IN IF ends = {} THEN 0 ELSE CHOOSE j \in ends : \A m \in ends : j <= m

MatchStarts(content, name) ==
    {i \in DOMAIN content : content[i].op = "q" /\ MatchEnd(content, i, name) # 0}

\* pdf_processor.py 527-534: the leftmost match is wrapped; no match, no change.
WrapFigure(content, fig) ==
    LET starts == MatchStarts(content, fig.img_name)
    IN IF starts = {} THEN content
       ELSE LET i == CHOOSE a \in starts : \A b \in starts : a <= b
                j == MatchEnd(content, i, fig.img_name)
            IN SubSeq(content, 1, i - 1) \o <<BDC(fig.mcid)>> \o SubSeq(content, i, j + 1)
               \o <<Tok("EMC")>> \o SubSeq(content, j + 2, Len(content))

RECURSIVE MarkContent(_, _, _)
MarkContent(content, figs, k) ==
    IF k = 0 THEN content ELSE WrapFigure(MarkContent(content, figs, k - 1), figs[k])

\* pdf_processor.py 518-545: an empty stream is left alone (523-524)
MarkPages(doc, page_figures) ==
    [i \in DOMAIN doc |->
        IF i - 1 \in DOMAIN page_figures /\ doc[i].content # <<>>
        THEN [doc[i] EXCEPT !.content = MarkContent(doc[i].content, page_figures[i - 1],
                                                     Len(page_figures[i - 1]))]
        ELSE doc[i]]

\* A PDF file by what the writer reads and writes of it.
PdfFile(pages, xobject_alt, figures, kids, nums, struct_root, mark_info, struct_parents) ==
    [pages |-> pages, xobject_alt |-> xobject_alt, figures |-> figures, kids |-> kids,
     nums |-> nums, struct_root |-> struct_root, mark_info |-> mark_info,
     struct_parents |-> struct_parents]

\* A file without structure tree
Untagged(pages) == PdfFile(pages, <<>>, <<>>, <<>>, <<>>, FALSE, FALSE, <<>>)

NoFile == Untagged(<<>>)

\* The writer as called (pdf_processor.py 437-441): doc is the document opened
\* from the file at input_path; nothing collected, nothing built, nothing at
\* output_path.  run counts the calls on the same input, first is the file
\* the first call saved.
WriterCall(doc, alt_texts) ==
    [pc |-> "collect", doc |-> doc, alt_texts |-> alt_texts,
     page_images |-> <<>>, xobject_alt |-> <<>>, figures |-> <<>>, page_figures |-> <<>>,
     kids |-> <<>>, nums |-> <<>>, struct_root |-> FALSE, mark_info |-> FALSE,
     struct_parents |-> <<>>,
     input |-> Untagged(doc), output |-> NoFile, run |-> 1, first |-> NoFile]

\* Mutant of WriterSave: the document is saved over the file it was opened from.
WriterSaveInPlace(w) ==
    LET file == PdfFile(w.doc, w.xobject_alt, w.figures, w.kids, w.nums, w.struct_root,
                        w.mark_info, w.struct_parents)
    IN [w EXCEPT !.input = file, !.output = file, !.pc = "saved"]

\* pdf_processor.py 464, 547: doc.save(output_path)
WriterSave(w) ==
    [w EXCEPT !.output = PdfFile(w.doc, w.xobject_alt, w.figures, w.kids, w.nums,
                                 w.struct_root, w.mark_info, w.struct_parents),
              !.pc = "saved"]

WriterInit ==
    /\ projects = <<>>
    /\ images = <<>>
    /\ nextProjectId = 1
    /\ disk = [p \in ProjectIds |-> EmptyDisk]
    /\ tasks = <<>>
    /\ loop = Idle
    /\ taskEnd = [p \in ProjectIds |-> "none"]
    /\ parser = NotCalled
    /\ clusterer = NotCalled
    /\ extractor = NotCalled
    /\ escaper = NotCalled
    /\ limiter = NotCalled
    /\ accounts = NotCalled
    /\ tenancy = NotCalled
    /\ writer \in {WriterCall(doc, alt_texts) : doc \in WriterDocs, alt_texts \in WriterMaps}

\* pdf_processor.py 437-466: the collecting loop; with nothing collected the
\* document is saved as it is.
WriterCollect ==
    /\ writer.pc = "collect"
    /\ LET page_images == CollectImages(writer.doc, writer.alt_texts)
           collected == [writer EXCEPT !.doc = [i \in DOMAIN writer.doc |->
                                                  clean_contents(writer.doc[i])],
                                       !.page_images = page_images,
                                       !.xobject_alt = SetXObjectAlt(page_images)]
       IN writer' = IF page_images = <<>>
                    THEN WriterSave(collected)
                    ELSE [collected EXCEPT !.pc = "build"]
    /\ UNCHANGED <<orchestratorVars, parser, clusterer, extractor, escaper, limiter, accounts, tenancy>>

\* pdf_processor.py 468-515: the structure tree
WriterBuild ==
    /\ writer.pc = "build"
    /\ LET figures == BuildFigures(writer.page_images, Len(writer.doc))
           page_figures == PageFigures(writer.page_images)
       IN writer' = [writer EXCEPT !.figures = figures,
                                   !.page_figures = page_figures,
                                   !.kids = [f \in DOMAIN figures |-> f],
                                   !.nums = NumsParts(page_figures, Len(writer.doc)),
                                   !.struct_root = TRUE,
                                   !.mark_info = TRUE,
                                   !.pc = "mark"]
    /\ UNCHANGED <<orchestratorVars, parser, clusterer, extractor, escaper, limiter, accounts, tenancy>>

\* pdf_processor.py 517-549: the content streams, then the save
WriterMark ==
    /\ writer.pc = "mark"
    /\ writer' = WriterSave([writer EXCEPT
                                !.doc = MarkPages(writer.doc, writer.page_figures),
                                !.struct_parents = [n \in DOMAIN writer.page_figures
                                                       |-> StructParentsKey(n)]])
    /\ UNCHANGED <<orchestratorVars, parser, clusterer, extractor, escaper, limiter, accounts, tenancy>>

\* main.py 564-570: a second export of the project calls the writer again
\* with the same paths and the same map; it opens what is at input_path.
WriterAgain ==
    /\ writer.pc = "saved"
    /\ writer.run = 1
    /\ writer' = [WriterCall(writer.input.pages, writer.alt_texts) EXCEPT
                    !.input = writer.input,
                    !.output = writer.output,
                    !.run = 2,
                    !.first = writer.output]
    /\ UNCHANGED <<orchestratorVars, parser, clusterer, extractor, escaper, limiter, accounts, tenancy>>

WriterNext == WriterCollect \/ WriterBuild \/ WriterMark \/ WriterAgain

WriterSpec == WriterInit /\ [][WriterNext]_vars

----------------------------------------------------------------------------
(* The response parser of generate_alt_text (pdf_processor.py 312-420),
   followed on its own.

   A reply text is given by what the parser's scans find in it: the matches
   of \{[^{}]*"alt_text"[^{}]*\} with what json.loads makes of each, what
   json.loads makes of the substring from the first "{" to the last "}", the
   captures of the salvage patterns, and the text the fallback is left with.
   Alt-texts are sequences of characters. *)

MAX_ALT_TEXT_LENGTH == 400

\* pdf_processor.py 264: a sentence end counts from this index on
SentenceFloor == 80

Fill(n) == [i \in 1..n |-> "x"]

Sentence == <<".", " ">>

\* pdf_processor.py 347: phrases of the model reasoning about its task
ShouldBe == <<"s", "h", "o", "u", "l", "d", " ", "b", "e">>
WouldBe == <<"w", "o", "u", "l", "d", " ", "b", "e">>
TheUser == <<"t", "h", "e", " ", "u", "s", "e", "r">>
AccordingTo == <<"a", "c", "c", "o", "r", "d", "i", "n", "g", " ", "t", "o">>
TheRulesSay == <<"t", "h", "e", " ", "r", "u", "l", "e", "s", " ", "s", "a", "y">>
MetaPhrases == {ShouldBe, WouldBe, TheUser, AccordingTo, TheRulesSay}

\* "rein dekorativ"
ReinDekorativ == <<"r", "e", "i", "n", " ">> \o Dekorativ

\* "Dekoratives Foto."
DekorativesFoto == <<"D", "e", "k", "o", "r", "a", "t", "i", "v", "e", "s", " ", "F", "o", "t", "o", ".">>

\* The alt-texts the model puts into its replies.
AltTexts ==
    { <<>>,
      DekorativesFoto,
      ReinDekorativ,
      Fill(MAX_ALT_TEXT_LENGTH),
      Fill(MAX_ALT_TEXT_LENGTH + 50),
      Fill(50) \o Sentence \o Fill(MAX_ALT_TEXT_LENGTH),
      Fill(100) \o Sentence \o Fill(MAX_ALT_TEXT_LENGTH - 50),
      Fill(MAX_ALT_TEXT_LENGTH + 20) \o Sentence \o Fill(30) }

\* json.loads of a scanned substring: kind "object", "invalid"
\* (JSONDecodeError) or "none" (nothing to parse); alt_given: the key alt_text
\* is present and not null.
Object(alt_given, alt_text, langbeschreibung, bildtyp, ist_dekorativ) ==
    [kind |-> "object", alt_given |-> alt_given, alt_text |-> alt_text,
     langbeschreibung |-> langbeschreibung, bildtyp |-> bildtyp,
     ist_dekorativ |-> ist_dekorativ]

Invalid == [Object(FALSE, <<>>, <<>>, "unbekannt", FALSE) EXCEPT !.kind = "invalid"]

NoJson == [Object(FALSE, <<>>, <<>>, "unbekannt", FALSE) EXCEPT !.kind = "none"]

ReplyText(empty, matches, outer, captures, bildtyp, fallback) ==
    [empty |-> empty, matches |-> matches, outer |-> outer, captures |-> captures,
     bildtyp |-> bildtyp, fallback |-> fallback]

EmptyText == ReplyText(TRUE, <<>>, NoJson, <<>>, "unbekannt", <<>>)

\* The reply as text, keys left out: what the fallback makes of a reply that
\* is one JSON object (pdf_processor.py 408-413).
Raw(alt_text) == <<"{">> \o alt_text \o <<"}">>

\* {"bildtyp": b, "alt_text": T, "ist_dekorativ": d}
FlatJson(T, b, d) ==
    LET obj == Object(TRUE, T, <<>>, b, d)
    IN ReplyText(FALSE, <<obj>>, obj,
                 IF T = <<>> THEN <<>> ELSE <<T>>, b, Raw(T))

\* {"alt_text": "Foto", "langbeschreibung": T, "bildtyp": "foto"}
WithLongForm(T) ==
    LET obj == Object(TRUE, <<"F", "o", "t", "o">>, T, "foto", FALSE)
    IN ReplyText(FALSE, <<obj>>, obj, <<>>, "foto", Raw(T))

\* {"alt_text": T, "meta": {"k": "alt_text"}}: the scan matches the inner object
NestedMention(T) ==
    ReplyText(FALSE, <<Object(FALSE, <<>>, <<>>, "unbekannt", FALSE)>>,
              Object(TRUE, T, <<>>, "unbekannt", FALSE), <<>>, "unbekannt", Raw(T))

\* {"alt_text": T, "tags": {"a": 1}}: no brace-free match
NestedPlain(T) ==
    ReplyText(FALSE, <<>>, Object(TRUE, T, <<>>, "unbekannt", FALSE), <<>>, "unbekannt", Raw(T))

\* {"k": "{", "alt_text": T, "z": "}"}: the scan matches from the brace inside
\* the first string to the brace inside the last, which is no JSON
BraceInString(T) ==
    ReplyText(FALSE, <<Invalid>>, Object(TRUE, T, <<>>, "unbekannt", FALSE), <<>>,
              "unbekannt", Raw(T))

\* T as plain prose, no brace in it
Prose(T) == ReplyText(FALSE, <<>>, NoJson, <<>>, "unbekannt", T)

\* "the user sees a logo"
TheUserSees ==
    TheUser \o <<" ", "s", "e", "e", "s", " ", "a", " ", "l", "o", "g", "o">>

\* prose of the model about its task: alt_text: "the user sees a logo"
Reasoning ==
    ReplyText(FALSE, <<>>, NoJson, <<TheUserSees>>, "logo",
              <<"a", "l", "t", "_", "t", "e", "x", "t", ":", " ", "\"">> \o TheUserSees \o <<"\"">>)

Reply(response, thinking) == [response |-> response, thinking |-> thinking]

\* What response.json() gives: (response, thinking)
ModelReplies ==
    {Reply(FlatJson(T, b, d), EmptyText) :
        T \in AltTexts, b \in {"foto", "dekorativ"}, d \in BOOLEAN}
    \cup {Reply(EmptyText, FlatJson(T, b, FALSE)) : T \in AltTexts, b \in {"foto", "dekorativ"}}
    \cup {Reply(f, EmptyText) :
            f \in UNION {{WithLongForm(T), NestedMention(T), NestedPlain(T), BraceInString(T)} :
                            T \in AltTexts}}
    \cup {Reply(Prose(T), EmptyText) : T \in AltTexts \ {<<>>}}
    \cup {Reply(EmptyText, Prose(T)) : T \in AltTexts \ {<<>>}}
    \cup {Reply(EmptyText, Reasoning), Reply(EmptyText, EmptyText)}

----------------------------------------------------------------------------
(* String methods *)

Max(S) == CHOOSE x \in S : \A y \in S : y <= x

\* str.strip(chars), str.rstrip(chars)
RECURSIVE LStrip(_, _)
LStrip(text, chars) ==
    IF text # <<>> /\ Head(text) \in chars THEN LStrip(Tail(text), chars) ELSE text

RECURSIVE RStrip(_, _)
RStrip(text, chars) ==
    IF text # <<>> /\ text[Len(text)] \in chars
    THEN RStrip(SubSeq(text, 1, Len(text) - 1), chars)
    ELSE text

Strip(text, chars) == LStrip(RStrip(text, chars), chars)

White == {" "}

\* text[:n]
Take(text, n) == SubSeq(text, 1, IF n < Len(text) THEN n ELSE Len(text))

\* str.startswith
StartsWith(text, prefix) ==
    Len(prefix) <= Len(text) /\ SubSeq(text, 1, Len(prefix)) = prefix

\* str.rfind of a two-character pattern: zero-based index, -1 when absent
RFind(text, a, b) ==
    LET hits == {i \in 1..(Len(text) - 1) : text[i] = a /\ text[i + 1] = b}
    IN IF hits = {} THEN -1 ELSE Max(hits) - 1

\* str.lower
LowerChar(c) == CASE c = "D" -> "d" [] c = "F" -> "f" [] OTHER -> c

Lower(text) == [i \in DOMAIN text |-> LowerChar(text[i])]

\* word in text
Contains(text, word) ==
    \E i \in 1..(Len(text) - Len(word) + 1) : SubSeq(text, i, i + Len(word) - 1) = word

----------------------------------------------------------------------------
(* _combine_alt_text *)

\* pdf_processor.py 254-259
Compose(alt_text, langbeschreibung) ==
    IF langbeschreibung = <<>>
    THEN Strip(alt_text, White)
    ELSE IF StartsWith(Strip(langbeschreibung, White), Take(Strip(alt_text, White), 30))
    THEN Strip(langbeschreibung, White)
    ELSE RStrip(alt_text, {".", " "}) \o Sentence \o Strip(langbeschreibung, White)

\* pdf_processor.py 261-266
Trim(text) ==
    IF Len(text) > MAX_ALT_TEXT_LENGTH
    THEN LET cut == Take(text, MAX_ALT_TEXT_LENGTH)
             last_end == Max({RFind(cut, ".", " "), RFind(cut, "!", " "), RFind(cut, "?", " ")})
         IN IF last_end > SentenceFloor THEN Take(cut, last_end + 1) ELSE text
    ELSE text

\* pdf_processor.py 250-266
combine_alt_text(alt_text, langbeschreibung) ==
    IF alt_text = <<>> THEN <<>> ELSE Trim(Compose(alt_text, langbeschreibung))

----------------------------------------------------------------------------
(* The strategies *)

\* The record generate_alt_text returns; strategy names the return statement
\* taken, konfidenz is "" where the record has no such key.
Record(strategy, bildtyp, alt_text, ist_dekorativ, konfidenz) ==
    [strategy |-> strategy, bildtyp |-> bildtyp, alt_text |-> alt_text,
     ist_dekorativ |-> ist_dekorativ, konfidenz |-> konfidenz]

NoRecord == Record("", "", <<>>, FALSE, "")

\* pdf_processor.py 315: text = response_text or thinking_text; the scans of
\* lines 380-413 run on clean_text, which is made of it (318-320).
TextOf(result) == IF ~result.response.empty THEN result.response ELSE result.thinking

\* pdf_processor.py 345
Candidate(capture) == Strip(Strip(Strip(capture, White), {"\""}), {"."})

\* pdf_processor.py 347
LooksLikeReasoning(found_alt) == \E kw \in MetaPhrases : Contains(Lower(found_alt), kw)

\* pdf_processor.py 341-350: the first capture longer than 10 that is not
\* reasoning about the task, stripped; <<>> stands for None.
RECURSIVE FoundAlt(_, _)
FoundAlt(captures, k) ==
    IF k > Len(captures) THEN <<>>
    ELSE IF Len(Strip(captures[k], White)) > 10 /\ ~LooksLikeReasoning(Candidate(captures[k]))
    THEN Candidate(captures[k])
    ELSE FoundAlt(captures, k + 1)

\* pdf_processor.py 323: the salvage runs before the JSON scans
SalvageApplies(result) == result.response.empty /\ ~result.thinking.empty

\* pdf_processor.py 370-376
SalvageRecord(found_alt, bildtyp) ==
    Record("salvage", bildtyp, found_alt,
           Contains(Lower(found_alt), Dekorativ) \/ bildtyp = "dekorativ", "")

\* pdf_processor.py 383-390, 396-403: the record made of a parsed object
JsonRecord(strategy, parsed) ==
    Record(strategy, parsed.bildtyp,
           combine_alt_text(parsed.alt_text, parsed.langbeschreibung),
           parsed.ist_dekorativ, "mittel")

\* pdf_processor.py 417: "[Modell-Antwort konnte nicht verarbeitet werden: ]",
\* the text being empty when the fallback is left with nothing
Sentinel == <<"[", "M", "o", "d", "e", "l", "l", "-", "A", "n", "t", "w", "o", "r", "t", "]">>

\* pdf_processor.py 407-420
FallbackRecord(text) ==
    Record("fallback", "unbekannt",
           IF text.fallback # <<>> THEN text.fallback ELSE Sentinel, FALSE, "")

\* pdf_processor.py 379-405: the last match decides; when it is no JSON the
\* exception leaves the try, past the outer-brace scan.
ParseJson(text) ==
    IF text.matches # <<>>
    THEN LET parsed == text.matches[Len(text.matches)]
         IN IF parsed.kind = "object" THEN JsonRecord("fenced", parsed) ELSE FallbackRecord(text)
    ELSE IF text.outer.kind = "object" /\ text.outer.alt_given
    THEN JsonRecord("outer", text.outer)
    ELSE FallbackRecord(text)

ParserCall(result) == [pc |-> "salvage", result |-> result, out |-> NoRecord]

ParserInit ==
    /\ projects = <<>>
    /\ images = <<>>
    /\ nextProjectId = 1
    /\ disk = [p \in ProjectIds |-> EmptyDisk]
    /\ tasks = <<>>
    /\ loop = Idle
    /\ taskEnd = [p \in ProjectIds |-> "none"]
    /\ writer = NotCalled
    /\ clusterer = NotCalled
    /\ extractor = NotCalled
    /\ escaper = NotCalled
    /\ limiter = NotCalled
    /\ accounts = NotCalled
    /\ tenancy = NotCalled
    /\ parser \in {ParserCall(result) : result \in ModelReplies}

\* pdf_processor.py 313-376
ParserSalvage ==
    /\ parser.pc = "salvage"
    /\ LET thinking == parser.result.thinking
           found_alt == FoundAlt(thinking.captures, 1)
       IN IF SalvageApplies(parser.result) /\ found_alt # <<>>
          THEN parser' = [parser EXCEPT !.pc = "returned",
                                        !.out = SalvageRecord(found_alt, thinking.bildtyp)]
          ELSE parser' = [parser EXCEPT !.pc = "json"]
    /\ UNCHANGED <<orchestratorVars, writer, clusterer, extractor, escaper, limiter, accounts, tenancy>>

\* pdf_processor.py 378-420
ParserJson ==
    /\ parser.pc = "json"
    /\ parser' = [parser EXCEPT !.pc = "returned", !.out = ParseJson(TextOf(parser.result))]
    /\ UNCHANGED <<orchestratorVars, writer, clusterer, extractor, escaper, limiter, accounts, tenancy>>

ParserNext == ParserSalvage \/ ParserJson

ParserSpec == ParserInit /\ [][ParserNext]_vars

----------------------------------------------------------------------------
(* _cluster_drawings (pdf_processor.py 55-119), followed on its own.

   Coordinates are whole points.  A rectangle is its two corners; a drawing
   is what the function reads of a path of page.get_drawings: its rectangle
   and the number of its items. *)

Rect(x0, y0, x1, y1) == [x0 |-> x0, y0 |-> y0, x1 |-> x1, y1 |-> y1]

Drawing(rect, item_count) == [rect |-> rect, item_count |-> item_count]

\* pdf_processor.py 55: the defaults of the parameters gap and min_size
gap == 50
min_size == 50

\* pdf_processor.py 113
pad == 60

\* pdf_processor.py 102, 107: the fewest drawings and the fewest items kept
MinDrawings == 2
MinItems == 5

\* pdf_processor.py 66, 68: a line is thinner than 5 points
LineWidth == 5

\* fitz.Rect.width and height (pdf_processor.py 66, 111): never negative
Width(r) == IF r.x1 > r.x0 THEN r.x1 - r.x0 ELSE 0
Height(r) == IF r.y1 > r.y0 THEN r.y1 - r.y0 ELSE 0

\* fitz.Rect.is_empty (pdf_processor.py 63): no area
is_empty(r) == ~(r.x0 < r.x1 /\ r.y0 < r.y1)

Lower2(a, b) == IF a < b THEN a ELSE b
Higher2(a, b) == IF a > b THEN a ELSE b

\* fitz.Rect & (pdf_processor.py 116, 195): the larger of the low corners and
\* the smaller of the high corners; of two disjoint rectangles it is a
\* rectangle with no area.
Intersect(a, b) ==
    Rect(Higher2(a.x0, b.x0), Higher2(a.y0, b.y0), Lower2(a.x1, b.x1), Lower2(a.y1, b.y1))

\* fitz.Rect | (pdf_processor.py 97): the smallest rectangle holding both
Join(a, b) ==
    Rect(Lower2(a.x0, b.x0), Lower2(a.y0, b.y0), Higher2(a.x1, b.x1), Higher2(a.y1, b.y1))

\* fitz.Rect.intersects (pdf_processor.py 95): the common part has an area
intersects(a, b) == ~is_empty(a) /\ ~is_empty(b) /\ ~is_empty(Intersect(a, b))

\* pdf_processor.py 90-91, 114-115: the rectangle grown by d on every side
Grown(r, d) == Rect(r.x0 - d, r.y0 - d, r.x1 + d, r.y1 + d)

\* pdf_processor.py 63-69: empty rectangles and long thin lines are skipped
\* (get_drawings gives no infinite rectangle)
Kept(d, page_rect) ==
    /\ ~is_empty(d.rect)
    /\ ~(Height(d.rect) < LineWidth /\ Width(d.rect) * 10 > Width(page_rect) * 4)
    /\ ~(Width(d.rect) < LineWidth /\ Height(d.rect) * 10 > Height(page_rect) * 4)

\* pdf_processor.py 60-71: drawing_data
DrawingData(drawings, page_rect) == SelectSeq(drawings, LAMBDA d : Kept(d, page_rect))

\* pdf_processor.py 92-98: the for loop of one pass from item j on; expanded
\* is the rectangle computed before the pass, acc the cluster as it grows.
RECURSIVE Absorb(_, _, _, _, _)
Absorb(drawing_data, used, expanded, acc, j) ==
    IF j > Len(drawing_data) THEN acc
    ELSE IF j \in acc.cluster \/ j \in used
    THEN Absorb(drawing_data, used, expanded, acc, j + 1)
    ELSE IF intersects(expanded, drawing_data[j].rect)
    THEN Absorb(drawing_data, used, expanded,
                [cluster |-> acc.cluster \cup {j},
                 cluster_rect |-> Join(acc.cluster_rect, drawing_data[j].rect),
                 changed |-> TRUE], j + 1)
    ELSE Absorb(drawing_data, used, expanded, acc, j + 1)

\* Mutant of ExpansionPass: a pass stops at the first item it absorbs.
RECURSIVE AbsorbOne(_, _, _, _, _)
AbsorbOne(drawing_data, used, expanded, acc, j) ==
    IF j > Len(drawing_data) THEN acc
    ELSE IF j \notin acc.cluster /\ j \notin used /\ intersects(expanded, drawing_data[j].rect)
    THEN [cluster |-> acc.cluster \cup {j},
          cluster_rect |-> Join(acc.cluster_rect, drawing_data[j].rect),
          changed |-> FALSE]
    ELSE AbsorbOne(drawing_data, used, expanded, acc, j + 1)

ExpansionPassStopsEarly(drawing_data, used, cluster, cluster_rect) ==
    AbsorbOne(drawing_data, used, Grown(cluster_rect, gap),
              [cluster |-> cluster, cluster_rect |-> cluster_rect, changed |-> FALSE], 1)

\* pdf_processor.py 89-98: one pass of the while loop
ExpansionPass(drawing_data, used, cluster, cluster_rect) ==
    Absorb(drawing_data, used, Grown(cluster_rect, gap),
           [cluster |-> cluster, cluster_rect |-> cluster_rect, changed |-> FALSE], 1)

\* pdf_processor.py 87-98: the while loop
RECURSIVE Expansion(_, _, _, _)
Expansion(drawing_data, used, cluster, cluster_rect) ==
    LET pass == ExpansionPass(drawing_data, used, cluster, cluster_rect)
    IN IF pass.changed
       THEN Expansion(drawing_data, used, pass.cluster, pass.cluster_rect)
       ELSE pass

RECURSIVE SumItems(_, _)
SumItems(drawing_data, cluster) ==
    IF cluster = {} THEN 0
    ELSE LET idx == CHOOSE n \in cluster : TRUE
         IN drawing_data[idx].item_count + SumItems(drawing_data, cluster \ {idx})

\* Mutant of Significant: a cluster of a single drawing is kept.
SignificantAlone(drawing_data, cluster, cluster_rect) ==
    /\ SumItems(drawing_data, cluster) >= MinItems
    /\ Width(cluster_rect) >= min_size
    /\ Height(cluster_rect) >= min_size

\* pdf_processor.py 102-111: the three tests a closed cluster passes
Significant(drawing_data, cluster, cluster_rect) ==
    /\ Cardinality(cluster) >= MinDrawings
    /\ SumItems(drawing_data, cluster) >= MinItems
    /\ Width(cluster_rect) >= min_size
    /\ Height(cluster_rect) >= min_size

\* Mutant of UsedAfter: a closed cluster's items are not recorded as used.
UsedAfterForgets(used, cluster) == used

\* pdf_processor.py 99: used.update(cluster)
UsedAfter(used, cluster) == used \cup cluster

\* pdf_processor.py 113-116
Padded(cluster_rect, page_rect) == Intersect(Grown(cluster_rect, pad), page_rect)

\* pdf_processor.py 82-117: the for loop from item i on
RECURSIVE ClustersFrom(_, _, _, _)
ClustersFrom(drawing_data, page_rect, used, i) ==
    IF i > Len(drawing_data) THEN <<>>
    ELSE IF i \in used THEN ClustersFrom(drawing_data, page_rect, used, i + 1)
    ELSE LET grown == Expansion(drawing_data, used, {i}, drawing_data[i].rect)
             rest == ClustersFrom(drawing_data, page_rect, UsedAfter(used, grown.cluster), i + 1)
         IN IF Significant(drawing_data, grown.cluster, grown.cluster_rect)
            THEN <<Padded(grown.cluster_rect, page_rect)>> \o rest
            ELSE rest

\* pdf_processor.py 55-119
cluster_drawings(drawings, page_rect) ==
    ClustersFrom(DrawingData(drawings, page_rect), page_rect, {}, 1)

\* The page of the drawings: 600 by 800 points.
PageRect == Rect(0, 0, 600, 800)

\* Paths a page may hold: three in a row 40 apart, a small one between the
\* first two, one exactly 50 from the first, two in the lower left corner,
\* a separator line, a path with no area, and two beyond the right edge.
PathPool ==
    { Drawing(Rect(100, 100, 140, 160), 3),
      Drawing(Rect(180, 100, 220, 160), 2),
      Drawing(Rect(260, 100, 300, 130), 1),
      Drawing(Rect(150, 110, 170, 120), 1),
      Drawing(Rect(190, 300, 260, 370), 5),
      Drawing(Rect(10, 700, 70, 790), 6),
      Drawing(Rect(80, 720, 110, 790), 1),
      Drawing(Rect(0, 400, 600, 402), 1),
      Drawing(Rect(200, 200, 200, 250), 4),
      Drawing(Rect(700, 100, 760, 170), 5),
      Drawing(Rect(770, 100, 800, 170), 1) }

MaxDrawings == 3    \* paths on the page

\* The lists of at most n different paths of the pool, in every order
RECURSIVE PathLists(_)
PathLists(n) ==
    IF n = 0 THEN {<<>>}
    ELSE LET shorter == PathLists(n - 1)
         IN shorter \cup {Append(l, d) : l \in {s \in shorter : Len(s) = n - 1},
                                         d \in PathPool}

Distinct(l) == \A a, b \in DOMAIN l : a # b => l[a] # l[b]

\* The function as called: drawing_data not yet built.  closed and origin are
\* history: the clusters closed so far, and for each returned rectangle the
\* cluster it was made from.
ClusterCall(drawings, page_rect) ==
    [pc |-> "filter", drawings |-> drawings, page_rect |-> page_rect,
     drawing_data |-> <<>>, used |-> {}, i |-> 1,
     cluster |-> {}, cluster_rect |-> Rect(0, 0, 0, 0), changed |-> FALSE,
     clusters |-> <<>>, origin |-> <<>>, closed |-> <<>>, passes |-> 0]

ClusterInit ==
    /\ projects = <<>>
    /\ images = <<>>
    /\ nextProjectId = 1
    /\ disk = [p \in ProjectIds |-> EmptyDisk]
    /\ tasks = <<>>
    /\ loop = Idle
    /\ taskEnd = [p \in ProjectIds |-> "none"]
    /\ parser = NotCalled
    /\ writer = NotCalled
    /\ extractor = NotCalled
    /\ escaper = NotCalled
    /\ limiter = NotCalled
    /\ accounts = NotCalled
    /\ tenancy = NotCalled
    /\ clusterer \in {ClusterCall(drawings, PageRect) :
                        drawings \in {l \in PathLists(MaxDrawings) : Distinct(l)}}

notClusterer == <<orchestratorVars, parser, writer, extractor, escaper, limiter, accounts, tenancy>>

\* pdf_processor.py 57-76: the early returns and drawing_data
ClusterFilter ==
    /\ clusterer.pc = "filter"
    /\ LET drawing_data == DrawingData(clusterer.drawings, clusterer.page_rect)
       IN clusterer' = [clusterer EXCEPT !.drawing_data = drawing_data,
                                         !.pc = IF drawing_data = <<>> THEN "done" ELSE "scan"]
    /\ UNCHANGED notClusterer

\* pdf_processor.py 82-87: the next item opens a cluster unless it is used
ClusterOpen ==
    /\ clusterer.pc = "scan"
    /\ clusterer.i <= Len(clusterer.drawing_data)
    /\ clusterer' =
         IF clusterer.i \in clusterer.used
         THEN [clusterer EXCEPT !.i = clusterer.i + 1]
         ELSE [clusterer EXCEPT !.cluster = {clusterer.i},
                                !.cluster_rect = clusterer.drawing_data[clusterer.i].rect,
                                !.changed = TRUE,
                                !.passes = 0,
                                !.pc = "expand"]
    /\ UNCHANGED notClusterer

\* pdf_processor.py 88-98: one pass of the while loop
ClusterPass ==
    /\ clusterer.pc = "expand"
    /\ clusterer.changed
    /\ LET pass == ExpansionPass(clusterer.drawing_data, clusterer.used,
                                 clusterer.cluster, clusterer.cluster_rect)
       IN clusterer' = [clusterer EXCEPT !.cluster = pass.cluster,
                                         !.cluster_rect = pass.cluster_rect,
                                         !.changed = pass.changed,
                                         !.passes = clusterer.passes + 1]
    /\ UNCHANGED notClusterer

\* pdf_processor.py 99-117: the loop has ended; the cluster is used up, and
\* kept if it is significant
ClusterClose ==
    /\ clusterer.pc = "expand"
    /\ ~clusterer.changed
    /\ LET keep == Significant(clusterer.drawing_data, clusterer.cluster, clusterer.cluster_rect)
       IN clusterer' =
            [clusterer EXCEPT
               !.used = UsedAfter(clusterer.used, clusterer.cluster),
               !.closed = Append(clusterer.closed, clusterer.cluster),
               !.clusters = IF keep
                            THEN Append(clusterer.clusters,
                                        Padded(clusterer.cluster_rect, clusterer.page_rect))
                            ELSE clusterer.clusters,
               !.origin = IF keep
                          THEN Append(clusterer.origin,
                                      [cluster |-> clusterer.cluster,
                                       cluster_rect |-> clusterer.cluster_rect])
                          ELSE clusterer.origin,
               !.i = clusterer.i + 1,
               !.pc = "scan"]
    /\ UNCHANGED notClusterer

\* pdf_processor.py 119
ClusterReturn ==
    /\ clusterer.pc = "scan"
    /\ clusterer.i > Len(clusterer.drawing_data)
    /\ clusterer' = [clusterer EXCEPT !.pc = "done"]
    /\ UNCHANGED notClusterer

ClusterNext == ClusterFilter \/ ClusterOpen \/ ClusterPass \/ ClusterClose \/ ClusterReturn

ClusterSpec == ClusterInit /\ [][ClusterNext]_vars

\* The function runs on: no step that can be taken is put off for ever.
ClusterLive == ClusterSpec /\ WF_vars(ClusterNext)

----------------------------------------------------------------------------
(* extract_images_from_pdf (pdf_processor.py 122-240), followed on its own.

   A page is what the function reads of it: image_list, the entries of
   page.get_images, and drawings, the paths of page.get_drawings.  An entry
   of image_list is the XObject's number, what doc.extract_image gives for
   it (decoded: "ok", "none" for an empty result, "raises") and rects, the
   rectangles of page.get_image_rects. *)

RasterImage(xref, width, height, ext, decoded, rects) ==
    [xref |-> xref, width |-> width, height |-> height, ext |-> ext,
     decoded |-> decoded, rects |-> rects]

SourcePage(image_list, drawings) == [image_list |-> image_list, drawings |-> drawings]

Png == <<"p", "n", "g">>
Jpeg == <<"j", "p", "e", "g">>

\* A photo in the lower right part of the page
Photo == RasterImage(7, 200, 100, Jpeg, "ok", <<Rect(300, 500, 500, 600)>>)
\* A 10 by 10 pixel image stretched over the lower left corner
Backdrop == RasterImage(8, 10, 10, Png, "ok", <<Rect(0, 600, 200, 800)>>)
\* An image over the lower left corner
CornerPhoto == RasterImage(10, 300, 300, Png, "ok", <<Rect(0, 600, 200, 800)>>)
\* An XObject extract_image gives nothing for
Undecoded == RasterImage(9, 0, 0, Png, "none", <<>>)
\* An XObject extract_image raises on
Broken == RasterImage(11, 0, 0, Png, "raises", <<>>)

\* Two paths in the lower left corner: one cluster
CornerChart ==
    <<Drawing(Rect(10, 700, 70, 790), 6), Drawing(Rect(80, 720, 110, 790), 1)>>
\* Three paths in a row: one cluster
RowChart ==
    <<Drawing(Rect(100, 100, 140, 160), 3), Drawing(Rect(180, 100, 220, 160), 2),
      Drawing(Rect(260, 100, 300, 130), 1)>>
\* A single frame: no cluster
Frame == <<Drawing(Rect(190, 300, 260, 370), 5)>>

\* Source documents handed to the extractor.
ExtractDocs ==
    { <<SourcePage(<<>>, <<>>)>>,
      <<SourcePage(<<Photo>>, <<>>)>>,
      <<SourcePage(<<Photo>>, RowChart)>>,
      <<SourcePage(<<Photo, Photo>>, CornerChart)>>,
      <<SourcePage(<<Undecoded, Photo>>, RowChart \o CornerChart)>>,
      <<SourcePage(<<Broken, Photo>>, Frame)>>,
      <<SourcePage(<<Backdrop>>, CornerChart)>>,
      <<SourcePage(<<CornerPhoto>>, CornerChart)>>,
      <<SourcePage(<<CornerPhoto>>, CornerChart \o RowChart)>>,
      <<SourcePage(<<>>, RowChart), SourcePage(<<>>, CornerChart)>>,
      <<SourcePage(<<Photo>>, RowChart), SourcePage(<<Photo>>, RowChart)>>,
      <<SourcePage(<<CornerPhoto>>, CornerChart), SourcePage(<<Photo>>, CornerChart)>>,
      <<SourcePage(<<>>, <<>>), SourcePage(<<Backdrop, Photo>>, RowChart)>> }

\* pdf_processor.py 152: the smallest width and height of a raster image
MinPixels == 20

\* str(n) of a natural number
DigitChar(n) ==
    CASE n = 0 -> "0" [] n = 1 -> "1" [] n = 2 -> "2" [] n = 3 -> "3" [] n = 4 -> "4"
      [] n = 5 -> "5" [] n = 6 -> "6" [] n = 7 -> "7" [] n = 8 -> "8" [] OTHER -> "9"

RECURSIVE Decimal(_)
Decimal(n) == IF n < 10 THEN <<DigitChar(n)>> ELSE Decimal(n \div 10) \o <<DigitChar(n % 10)>>

\* pdf_processor.py 155: f"p{page_num + 1}_img{img_idx}.{image_ext}"
RasterFilename(page_num, img_idx, image_ext) ==
    <<"p">> \o Decimal(page_num + 1) \o <<"_", "i", "m", "g">> \o Decimal(img_idx)
        \o <<".">> \o image_ext

\* pdf_processor.py 216: f"p{page_num + 1}_vec{img_idx}.png"
VectorFilename(page_num, img_idx) ==
    <<"p">> \o Decimal(page_num + 1) \o <<"_", "v", "e", "c">> \o Decimal(img_idx)
        \o <<".">> \o Png

\* pdf_processor.py 162-172, 223-233: a descriptor; vector is history (which
\* of the two appends made it).
Descriptor(page_num, img_idx, img_filename, width, height, xref, vector) ==
    [page_number |-> page_num + 1, image_index |-> img_idx, image_filename |-> img_filename,
     width |-> width, height |-> height, xref |-> xref, vector |-> vector]

Area(r) == Width(r) * Height(r)

\* pdf_processor.py 193-201: overlap_area / cluster_area > 0.5 for one of the
\* recorded rectangles
OverlapsRaster(cluster_rect, raster_areas) ==
    \E n \in DOMAIN raster_areas :
        LET intersection == Intersect(cluster_rect, raster_areas[n])
        IN /\ ~is_empty(intersection)
           /\ Area(cluster_rect) > 0
           /\ 2 * Area(intersection) > Area(cluster_rect)

\* Mutant of VectorIndex: vector graphics are numbered on their own.
VectorIndexOwn(img_idx, handled) == handled + 1

\* pdf_processor.py 206: img_idx += 1; handled is the number of clusters of
\* the page the loop has been through.
VectorIndex(img_idx, handled) == img_idx + 1

\* Mutant of AdvanceCounter: the counter moves before the render.
AdvanceCounterFirst(vector_xref_counter, saved) == vector_xref_counter + 1

\* pdf_processor.py 215-220: vector_xref_counter += 1 follows pixmap.save
AdvanceCounter(vector_xref_counter, saved) ==
    IF saved THEN vector_xref_counter + 1 ELSE vector_xref_counter

\* pdf_processor.py 124-135: the function as called, at the first page.
\* rendered is history: page and rectangle of every cluster that was rendered.
ExtractCall(doc) ==
    [pc |-> "raster", doc |-> doc, page_num |-> 0, k |-> 0, img_idx |-> 0,
     raster_areas |-> <<>>, clusters |-> <<>>, c |-> 0,
     vector_xref_counter |-> 900000, images |-> <<>>, rendered |-> <<>>]

ExtractInit ==
    /\ projects = <<>>
    /\ images = <<>>
    /\ nextProjectId = 1
    /\ disk = [p \in ProjectIds |-> EmptyDisk]
    /\ tasks = <<>>
    /\ loop = Idle
    /\ taskEnd = [p \in ProjectIds |-> "none"]
    /\ parser = NotCalled
    /\ writer = NotCalled
    /\ clusterer = NotCalled
    /\ escaper = NotCalled
    /\ limiter = NotCalled
    /\ accounts = NotCalled
    /\ tenancy = NotCalled
    /\ extractor \in {ExtractCall(doc) : doc \in ExtractDocs}

notExtractor == <<orchestratorVars, parser, writer, clusterer, escaper, limiter, accounts, tenancy>>

\* pdf_processor.py 138-180: one entry of image_list; written: the file was
\* written (an exception of open or write is caught at 178).
ExtractRaster ==
    /\ extractor.pc = "raster"
    /\ extractor.k < Len(extractor.doc[extractor.page_num + 1].image_list)
    /\ \E written \in BOOLEAN :
         LET img_info == extractor.doc[extractor.page_num + 1].image_list[extractor.k + 1]
             img_idx == extractor.img_idx + 1
             skipped == \/ img_info.decoded # "ok"
                        \/ img_info.width < MinPixels
                        \/ img_info.height < MinPixels
                        \/ ~written
         IN extractor' =
              IF skipped
              THEN [extractor EXCEPT !.k = extractor.k + 1, !.img_idx = img_idx]
              ELSE [extractor EXCEPT
                      !.k = extractor.k + 1,
                      !.img_idx = img_idx,
                      !.images = Append(extractor.images,
                                        Descriptor(extractor.page_num, img_idx,
                                                   RasterFilename(extractor.page_num, img_idx,
                                                                  img_info.ext),
                                                   img_info.width, img_info.height,
                                                   img_info.xref, FALSE)),
                      !.raster_areas = extractor.raster_areas \o img_info.rects]
    /\ UNCHANGED notExtractor

\* pdf_processor.py 183-189: the paths of the page (none when get_drawings
\* raises) and their clusters
ExtractDrawings ==
    /\ extractor.pc = "raster"
    /\ extractor.k = Len(extractor.doc[extractor.page_num + 1].image_list)
    /\ \E raises \in BOOLEAN :
         LET drawings == IF raises THEN <<>> ELSE extractor.doc[extractor.page_num + 1].drawings
         IN extractor' = [extractor EXCEPT
                            !.clusters = IF drawings # <<>>
                                         THEN cluster_drawings(drawings, PageRect)
                                         ELSE <<>>,
                            !.c = 0,
                            !.pc = "vector"]
    /\ UNCHANGED notExtractor

\* pdf_processor.py 191-237: one cluster; saved: get_pixmap and pixmap.save
\* went through (an exception is caught at 235).
ExtractVector ==
    /\ extractor.pc = "vector"
    /\ extractor.c < Len(extractor.clusters)
    /\ \E saved \in BOOLEAN :
         LET cluster_rect == extractor.clusters[extractor.c + 1]
             img_idx == VectorIndex(extractor.img_idx, extractor.c)
             counter == AdvanceCounter(extractor.vector_xref_counter, saved)
         IN extractor' =
              IF OverlapsRaster(cluster_rect, extractor.raster_areas)
              THEN [extractor EXCEPT !.c = extractor.c + 1]
              ELSE IF ~saved
              THEN [extractor EXCEPT !.c = extractor.c + 1, !.img_idx = img_idx,
                                     !.vector_xref_counter = counter]
              ELSE [extractor EXCEPT
                      !.c = extractor.c + 1,
                      !.img_idx = img_idx,
                      !.vector_xref_counter = counter,
                      !.images = Append(extractor.images,
                                        Descriptor(extractor.page_num, img_idx,
                                                   VectorFilename(extractor.page_num, img_idx),
                                                   Width(cluster_rect), Height(cluster_rect),
                                                   counter, TRUE)),
                      !.rendered = Append(extractor.rendered,
                                          [page_num |-> extractor.page_num,
                                           cluster_rect |-> cluster_rect])]
    /\ UNCHANGED notExtractor

\* pdf_processor.py 128-135, 239-240: the next page, or the return
ExtractNextPage ==
    /\ extractor.pc = "vector"
    /\ extractor.c = Len(extractor.clusters)
    /\ extractor' =
         IF extractor.page_num + 1 < Len(extractor.doc)
         THEN [extractor EXCEPT !.page_num = extractor.page_num + 1,
                                !.k = 0, !.img_idx = 0, !.raster_areas = <<>>,
                                !.clusters = <<>>, !.c = 0, !.pc = "raster"]
         ELSE [extractor EXCEPT !.pc = "done"]
    /\ UNCHANGED notExtractor

ExtractNext == ExtractRaster \/ ExtractDrawings \/ ExtractVector \/ ExtractNextPage

ExtractSpec == ExtractInit /\ [][ExtractNext]_vars

----------------------------------------------------------------------------
(* _escape_pdf_string (pdf_processor.py 430-432), followed on its own. *)

MaxAltLen == 3    \* characters of the text

\* The characters of the texts: the three the function escapes, a letter
\* that names an escape sequence after a backslash, and one that names none.
AltAlphabet == {"\\", "(", ")", "n", "a"}

\* The texts of at most n characters
RECURSIVE TextsUpTo(_)
TextsUpTo(n) ==
    IF n = 0 THEN {<<>>}
    ELSE LET shorter == TextsUpTo(n - 1)
         IN shorter \cup {Append(t, c) : t \in {s \in shorter : Len(s) = n - 1},
                                         c \in AltAlphabet}

EscapeCall(text) == [pc |-> "call", text |-> text, out |-> <<>>]

EscapeInit ==
    /\ projects = <<>>
    /\ images = <<>>
    /\ nextProjectId = 1
    /\ disk = [p \in ProjectIds |-> EmptyDisk]
    /\ tasks = <<>>
    /\ loop = Idle
    /\ taskEnd = [p \in ProjectIds |-> "none"]
    /\ parser = NotCalled
    /\ writer = NotCalled
    /\ clusterer = NotCalled
    /\ extractor = NotCalled
    /\ escaper \in {EscapeCall(text) : text \in TextsUpTo(MaxAltLen)}
    /\ limiter = NotCalled
    /\ accounts = NotCalled
    /\ tenancy = NotCalled

\* pdf_processor.py 432
EscapeReturn ==
    /\ escaper.pc = "call"
    /\ escaper' = [escaper EXCEPT !.out = escape_pdf_string(escaper.text), !.pc = "done"]
    /\ UNCHANGED <<orchestratorVars, parser, writer, clusterer, extractor, limiter, accounts, tenancy>>

EscapeNext == EscapeReturn

EscapeSpec == EscapeInit /\ [][EscapeNext]_vars

----------------------------------------------------------------------------
(* login (main.py 107-136) and its rate limit (main.py 46-49), followed on
   its own.

   Time is time.time() in whole seconds.  A request runs from its arrival to
   its await of the body (main.py 116) without interleaving, and from there
   to its response; between the two the loop serves other requests. *)

\* main.py 48, 49
MAX_LOGIN_ATTEMPTS == 5
LOGIN_WINDOW_SECONDS == 300

\* request.client.host of the requests: one client
Addresses == {"203.0.113.5"}

MaxAwaiting == 6    \* requests that await their body at once
MaxClock == 300     \* the last second of a run

\* Seconds that may pass between two steps of the loop
Waits == {150, 300}

\* main.py 112: the attempts younger than the window
RecentAttempts(attempts, now) ==
    SelectSeq(attempts, LAMBDA t : now - t < LOGIN_WINDOW_SECONDS)

\* main.py 113
TooManyAttempts(attempts) == Len(attempts) >= MAX_LOGIN_ATTEMPTS

\* A request past the rate limit: its address, the time.time() it read when
\* it arrived, and whether verify_user will accept its credentials.
LoginRequest(client_ip, now, valid) == [client_ip |-> client_ip, now |-> now, valid |-> valid]

\* The server as started: _login_attempts is an empty defaultdict(list);
\* status is that of the last response (0: none yet).
LoginServer ==
    [pc |-> "serving", clock |-> 0,
     login_attempts |-> [client_ip \in Addresses |-> <<>>],
     awaiting |-> EmptyBag, status |-> 0]

LoginInit ==
    /\ projects = <<>>
    /\ images = <<>>
    /\ nextProjectId = 1
    /\ disk = [p \in ProjectIds |-> EmptyDisk]
    /\ tasks = <<>>
    /\ loop = Idle
    /\ taskEnd = [p \in ProjectIds |-> "none"]
    /\ parser = NotCalled
    /\ writer = NotCalled
    /\ clusterer = NotCalled
    /\ extractor = NotCalled
    /\ escaper = NotCalled
    /\ limiter = LoginServer
    /\ accounts = NotCalled
    /\ tenancy = NotCalled

notLimiter == <<orchestratorVars, parser, writer, clusterer, extractor, escaper, accounts, tenancy>>

\* main.py 110-116: the list of the address is replaced by its recent
\* attempts; with MAX_LOGIN_ATTEMPTS of them the answer is 429, else the
\* request awaits its body.
LoginArrive(client_ip, valid) ==
    /\ limiter.pc = "serving"
    /\ LET now == limiter.clock
           recent == RecentAttempts(limiter.login_attempts[client_ip], now)
       IN IF TooManyAttempts(recent)
          THEN limiter' = [limiter EXCEPT !.login_attempts[client_ip] = recent,
                                          !.status = 429]
          ELSE /\ BagCardinality(limiter.awaiting) < MaxAwaiting
               /\ limiter' = [limiter EXCEPT
                     !.login_attempts[client_ip] = recent,
                     !.awaiting = limiter.awaiting
                                  (+) SetToBag({LoginRequest(client_ip, now, valid)})]
    /\ UNCHANGED notLimiter

\* main.py 116-136: the body has arrived; verify_user decides, and a refused
\* request appends the time it read on arrival.
LoginVerify(request) ==
    /\ limiter.pc = "serving"
    /\ BagIn(request, limiter.awaiting)
    /\ limiter' =
         [limiter EXCEPT
            !.awaiting = limiter.awaiting (-) SetToBag({request}),
            !.login_attempts[request.client_ip] =
                IF request.valid THEN @ ELSE Append(@, request.now),
            !.status = IF request.valid THEN 200 ELSE 401]
    /\ UNCHANGED notLimiter

\* time.time() moves on
LoginWait(seconds) ==
    /\ limiter.pc = "serving"
    /\ limiter.clock + seconds <= MaxClock
    /\ limiter' = [limiter EXCEPT !.clock = limiter.clock + seconds]
    /\ UNCHANGED notLimiter

LoginNext ==
    \/ \E client_ip \in Addresses, valid \in BOOLEAN : LoginArrive(client_ip, valid)
    \/ \E request \in BagToSet(limiter.awaiting) : LoginVerify(request)
    \/ \E seconds \in Waits : LoginWait(seconds)

LoginSpec == LoginInit /\ [][LoginNext]_vars

----------------------------------------------------------------------------
(* forgot_password and do_reset_password (main.py 217-251) over the tables
   users and password_resets (database.py 120-158), followed on their own.

   Time is datetime.utcnow() in whole hours.  Both handlers are done with
   their await before they touch the database, and the functions of
   database.py make no await: each request is one step. *)

\* database.py 123: timedelta(hours=1)
ResetTokenHours == 1

\* main.py 245
MinPasswordLength == 8

MaxTokens == 3      \* tokens created over a run
MaxHours == 2       \* the last hour of a run

UserIds == {1, 2}

\* Passwords a request sends: one too short, two long enough
NewPasswords ==
    { <<"k", "u", "r", "z">>,
      <<"p", "a", "s", "s", "w", "o", "r", "t">>,
      <<"g", "e", "h", "e", "i", "m", "e", "s", "9">> }

\* A token no forgot-password request has returned
UnknownToken == 0

\* bcrypt.hashpw with a fresh salt: the n-th hash computed
HashOf(password, n) == [password |-> password, salt |-> n]

\* database.py 126-129: a row as inserted (used defaults to 0); token and
\* id are the row's position, secrets.token_urlsafe giving a new value.
ResetRow(user_id, token, now) ==
    [user_id |-> user_id, token |-> token, expires_at |-> now + ResetTokenHours, used |-> 0]

\* Mutant of InvalidateOld: earlier tokens stay as they are.
InvalidateNone(password_resets, user_id) == password_resets

\* database.py 125: UPDATE password_resets SET used = 1 WHERE user_id = ?
InvalidateOld(password_resets, user_id) ==
    [n \in DOMAIN password_resets |->
        IF password_resets[n].user_id = user_id
        THEN [password_resets[n] EXCEPT !.used = 1]
        ELSE password_resets[n]]

\* database.py 120-132
create_password_reset_token(password_resets, user_id, now) ==
    Append(InvalidateOld(password_resets, user_id),
           ResetRow(user_id, Len(password_resets) + 1, now))

\* database.py 135-145: the row of the token if it is unused and not yet
\* expired (0: none)
verify_reset_token(password_resets, token, now) ==
    LET rows == {n \in DOMAIN password_resets :
                    password_resets[n].token = token /\ password_resets[n].used = 0}
    IN IF rows = {} THEN 0
       ELSE LET n == CHOOSE r \in rows : TRUE
            IN IF password_resets[n].expires_at < now THEN 0 ELSE n

\* The tables as init_db and two registrations leave them; hashed counts the
\* hashes computed, changed (history) the password changes made with each
\* token, last (history) the last reset-password request and its answer.
AccountServer ==
    [pc |-> "serving", clock |-> 0,
     users |-> [u \in UserIds |-> [password_hash |-> HashOf(<<>>, u)]],
     password_resets |-> <<>>,
     hashed |-> Cardinality(UserIds),
     changed |-> [t \in 1..MaxTokens |-> 0],
     last |-> [token |-> UnknownToken, status |-> 0]]

AccountInit ==
    /\ projects = <<>>
    /\ images = <<>>
    /\ nextProjectId = 1
    /\ disk = [p \in ProjectIds |-> EmptyDisk]
    /\ tasks = <<>>
    /\ loop = Idle
    /\ taskEnd = [p \in ProjectIds |-> "none"]
    /\ parser = NotCalled
    /\ writer = NotCalled
    /\ clusterer = NotCalled
    /\ extractor = NotCalled
    /\ escaper = NotCalled
    /\ limiter = NotCalled
    /\ accounts = AccountServer
    /\ tenancy = NotCalled

notAccounts == <<orchestratorVars, parser, writer, clusterer, extractor, escaper, limiter, tenancy>>

\* main.py 217-236: no user of that address, no token
forgot_password(known, user_id) ==
    /\ accounts.pc = "serving"
    /\ IF known
       THEN /\ Len(accounts.password_resets) < MaxTokens
            /\ accounts' = [accounts EXCEPT
                  !.password_resets =
                      create_password_reset_token(accounts.password_resets, user_id,
                                                  accounts.clock)]
       ELSE UNCHANGED accounts
    /\ UNCHANGED notAccounts

\* main.py 239-251 with database.py 148-158: 400 for a short password and
\* for a token that is unknown, used or expired
do_reset_password(token, new_password) ==
    /\ accounts.pc = "serving"
    /\ LET reset == verify_reset_token(accounts.password_resets, token, accounts.clock)
       IN IF Len(new_password) < MinPasswordLength \/ reset = 0
          THEN accounts' = [accounts EXCEPT !.last = [token |-> token, status |-> 400]]
          ELSE accounts' = [accounts EXCEPT
                 !.users[accounts.password_resets[reset].user_id].password_hash =
                     HashOf(new_password, accounts.hashed + 1),
                 !.hashed = accounts.hashed + 1,
                 !.password_resets[reset].used = 1,
                 !.changed[token] = @ + 1,
                 !.last = [token |-> token, status |-> 200]]
    /\ UNCHANGED notAccounts

\* datetime.utcnow() moves on by an hour
AccountWait ==
    /\ accounts.pc = "serving"
    /\ accounts.clock < MaxHours
    /\ accounts' = [accounts EXCEPT !.clock = accounts.clock + 1]
    /\ UNCHANGED notAccounts

AccountNext ==
    \/ \E known \in BOOLEAN, user_id \in UserIds : forgot_password(known, user_id)
    \/ \E token \in 0..MaxTokens, new_password \in NewPasswords :
          do_reset_password(token, new_password)
    \/ AccountWait

AccountSpec == AccountInit /\ [][AccountNext]_vars

----------------------------------------------------------------------------
(* The project and image handlers of main.py as two users call them,
   followed on their own: every row of projects carries the user_id of its
   uploader, and every handler selects by it.

   A document holds at most one image.  A handler runs in one step (its
   database work follows its only await); the background task runs in two,
   around its model call. *)

\* The ids of the projects uploaded over a run
OwnedIds == {1, 2}

\* The text of the alt-text edits
OwnedEdits == {"E"}

\* What the POST to the model does here
OwnedReplies == {"json"}

\* The documents uploaded here
OwnedDocuments == {"corrupt", "one_raster"}

\* main.py 347-350, 376-379: the row of a finished upload
OwnedProjectRow(user_id, status, total_images) ==
    [user_id |-> user_id, status |-> status,
     total_images |-> total_images, processed_images |-> 0]

\* Mutant of OwnsProject: the SELECT names the project only.
OwnsAnyProject(prjs, project_id, user_id) == project_id \in DOMAIN prjs

\* main.py 393-395, 414-416, 453-455, 506-508, 546-548:
\* SELECT * FROM projects WHERE id = ? AND user_id = ?
OwnsProject(prjs, project_id, user_id) ==
    project_id \in DOMAIN prjs /\ prjs[project_id].user_id = user_id

\* main.py 438-442, 524-528: SELECT ... FROM images i JOIN projects p
\* ON i.project_id = p.id WHERE i.id = ? AND p.user_id = ?
OwnsImage(prjs, imgs, project_id, k, user_id) ==
    /\ project_id \in DOMAIN imgs
    /\ k \in DOMAIN imgs[project_id]
    /\ OwnsProject(prjs, project_id, user_id)

\* The response to a request, with the request it answers
Answer(user_id, op, project_id, status) ==
    [user_id |-> user_id, op |-> op, project_id |-> project_id, status |-> status]

\* The server as started: empty catalog, nothing on disk, no task.
OwnerServer ==
    [pc |-> "serving",
     projects |-> <<>>, images |-> <<>>, nextProjectId |-> 1,
     disk |-> [p \in OwnedIds |-> EmptyDisk],
     tasks |-> {},
     last |-> Answer(0, "none", 0, 0)]

OwnerInit ==
    /\ projects = <<>>
    /\ images = <<>>
    /\ nextProjectId = 1
    /\ disk = [p \in ProjectIds |-> EmptyDisk]
    /\ tasks = <<>>
    /\ loop = Idle
    /\ taskEnd = [p \in ProjectIds |-> "none"]
    /\ parser = NotCalled
    /\ writer = NotCalled
    /\ clusterer = NotCalled
    /\ extractor = NotCalled
    /\ escaper = NotCalled
    /\ limiter = NotCalled
    /\ accounts = NotCalled
    /\ tenancy = OwnerServer

notTenancy == <<orchestratorVars, parser, writer, clusterer, extractor, escaper, limiter, accounts>>

\* main.py 324-387: the row is inserted for the caller; extraction fails
\* (status 'error', 500) or the image rows are stored (200).
UploadAs(user_id, doc) ==
    /\ tenancy.pc = "serving"
    /\ tenancy.nextProjectId \in OwnedIds
    /\ LET p == tenancy.nextProjectId
           ex == extract_images_from_pdf(doc, FALSE)
       IN tenancy' =
            [tenancy EXCEPT
               !.nextProjectId = p + 1,
               !.projects = Put(tenancy.projects, p,
                                IF ex.raised
                                THEN OwnedProjectRow(user_id, "error", 0)
                                ELSE OwnedProjectRow(user_id, "extracted", Len(ex.xrefs))),
               !.images = Put(tenancy.images, p,
                              [k \in 1..Len(ex.xrefs) |-> NewImageRow(ex.xrefs[k])]),
               !.disk[p] = [pdf |-> doc, imgs |-> ~ex.raised, out |-> "absent"],
               !.last = Answer(user_id, "upload", p,
                               IF ex.raised THEN 500 ELSE 200)]
    /\ UNCHANGED notTenancy

\* main.py 390-408
GetProjectAs(user_id, project_id) ==
    /\ tenancy.pc = "serving"
    /\ tenancy' = [tenancy EXCEPT !.last =
         Answer(user_id, "get", project_id,
                IF OwnsProject(tenancy.projects, project_id, user_id) THEN 200 ELSE 404)]
    /\ UNCHANGED notTenancy

\* main.py 503-517
StatusAs(user_id, project_id) ==
    /\ tenancy.pc = "serving"
    /\ tenancy' = [tenancy EXCEPT !.last =
         Answer(user_id, "status", project_id,
                IF OwnsProject(tenancy.projects, project_id, user_id) THEN 200 ELSE 404)]
    /\ UNCHANGED notTenancy

\* main.py 435-447: 404 also when the file is gone
ImageFileAs(user_id, project_id, k) ==
    /\ tenancy.pc = "serving"
    /\ tenancy' = [tenancy EXCEPT !.last =
         Answer(user_id, "image_file", project_id,
                IF /\ OwnsImage(tenancy.projects, tenancy.images, project_id, k, user_id)
                   /\ tenancy.disk[project_id].imgs
                THEN 200 ELSE 404)]
    /\ UNCHANGED notTenancy

\* main.py 411-432
DeleteAs(user_id, project_id) ==
    /\ tenancy.pc = "serving"
    /\ IF OwnsProject(tenancy.projects, project_id, user_id)
       THEN tenancy' =
              [tenancy EXCEPT
                 !.disk[project_id] = DeleteFiles(tenancy.disk[project_id]),
                 !.images = Drop(tenancy.images, project_id),
                 !.projects = Drop(tenancy.projects, project_id),
                 !.last = Answer(user_id, "delete", project_id, 200)]
       ELSE tenancy' = [tenancy EXCEPT !.last =
              Answer(user_id, "delete", project_id, 404)]
    /\ UNCHANGED notTenancy

\* main.py 450-469
GenerateAs(user_id, project_id) ==
    /\ tenancy.pc = "serving"
    /\ IF ~OwnsProject(tenancy.projects, project_id, user_id)
       THEN tenancy' = [tenancy EXCEPT !.last =
              Answer(user_id, "generate", project_id, 404)]
       ELSE IF ~GenerateAccepts(tenancy.projects[project_id])
       THEN tenancy' = [tenancy EXCEPT !.last =
              Answer(user_id, "generate", project_id, 409)]
       ELSE tenancy' =
              [tenancy EXCEPT
                 !.projects[project_id].status = "processing",
                 !.tasks = tenancy.tasks \cup {[p |-> project_id, pc |-> "new"]},
                 !.last = Answer(user_id, "generate", project_id, 200)]
    /\ UNCHANGED notTenancy

\* main.py 520-540
EditAs(user_id, project_id, k, text) ==
    /\ tenancy.pc = "serving"
    /\ IF OwnsImage(tenancy.projects, tenancy.images, project_id, k, user_id)
       THEN tenancy' =
              [tenancy EXCEPT
                 !.images[project_id][k].alt_text_edited = text,
                 !.last = Answer(user_id, "alt_text", project_id, 200)]
       ELSE tenancy' = [tenancy EXCEPT !.last =
              Answer(user_id, "alt_text", project_id, 404)]
    /\ UNCHANGED notTenancy

\* main.py 543-578: the writer saves to the output path of the project, or
\* raises (500) and leaves what it had written
ExportAs(user_id, project_id) ==
    /\ tenancy.pc = "serving"
    /\ IF ~OwnsProject(tenancy.projects, project_id, user_id)
       THEN tenancy' = [tenancy EXCEPT !.last =
              Answer(user_id, "export", project_id, 404)]
       ELSE IF tenancy.disk[project_id].pdf = "corrupt"
       THEN tenancy' = [tenancy EXCEPT !.last =
              Answer(user_id, "export", project_id, 500)]
       ELSE \E saved \in BOOLEAN :
              tenancy' =
                [tenancy EXCEPT
                   !.disk[project_id] =
                       SaveTo(tenancy.disk[project_id],
                              IF saved THEN "complete" ELSE "partial"),
                   !.last = Answer(user_id, "export", project_id,
                                   IF saved THEN 200 ELSE 500)]
    /\ UNCHANGED notTenancy

\* main.py 472-486, 499-501: the task selects the pending rows of its project
\* and marks the first, or finishes when there is none
OwnedTaskStart(t) ==
    /\ tenancy.pc = "serving"
    /\ t \in tenancy.tasks
    /\ t.pc = "new"
    /\ LET pending == IF t.p \in DOMAIN tenancy.images
                      THEN PendingFrom(tenancy.images[t.p], 1) ELSE <<>>
       IN IF pending = <<>>
          THEN tenancy' = [tenancy EXCEPT !.projects = MarkDone(tenancy.projects, t.p),
                                          !.tasks = tenancy.tasks \ {t}]
          ELSE tenancy' =
                 [tenancy EXCEPT
                    !.images = MarkProcessing(tenancy.images, t.p, pending[1]),
                    !.tasks = (tenancy.tasks \ {t}) \cup {[p |-> t.p, pc |-> "call"]}]
    /\ UNCHANGED notTenancy

\* main.py 484-501: the model call raises on a missing file and ends the
\* task; else the result and the counter are stored and the project is done
OwnedTaskStore(t) ==
    /\ tenancy.pc = "serving"
    /\ t \in tenancy.tasks
    /\ t.pc = "call"
    /\ \E reply \in OwnedReplies :
         LET result == generate_alt_text(tenancy.disk[t.p].imgs, reply)
         IN IF result.raised
            THEN tenancy' = [tenancy EXCEPT !.tasks = tenancy.tasks \ {t}]
            ELSE tenancy' =
                   [tenancy EXCEPT
                      !.images = StoreResult(tenancy.images, t.p, 1, result),
                      !.projects = MarkDone(StoreCounter(tenancy.projects, t.p,
                                                         CounterAfter(0)), t.p),
                      !.tasks = tenancy.tasks \ {t}]
    /\ UNCHANGED notTenancy

OwnerNext ==
    \/ \E user_id \in UserIds, doc \in OwnedDocuments : UploadAs(user_id, doc)
    \/ \E user_id \in UserIds, project_id \in OwnedIds : GetProjectAs(user_id, project_id)
    \/ \E user_id \in UserIds, project_id \in OwnedIds : StatusAs(user_id, project_id)
    \/ \E user_id \in UserIds, project_id \in OwnedIds : ImageFileAs(user_id, project_id, 1)
    \/ \E user_id \in UserIds, project_id \in OwnedIds : DeleteAs(user_id, project_id)
    \/ \E user_id \in UserIds, project_id \in OwnedIds : GenerateAs(user_id, project_id)
    \/ \E user_id \in UserIds, project_id \in OwnedIds, text \in OwnedEdits :
          EditAs(user_id, project_id, 1, text)
    \/ \E user_id \in UserIds, project_id \in OwnedIds : ExportAs(user_id, project_id)
    \/ \E t \in tenancy.tasks : OwnedTaskStart(t)
    \/ \E t \in tenancy.tasks : OwnedTaskStore(t)

OwnerSpec == OwnerInit /\ [][OwnerNext]_vars

----------------------------------------------------------------------------
(* Shared vocabulary of the properties *)

\* The order of the lifecycle: uploaded < extracting < extracted < processing < done.
StatusRank(s) ==
    CASE s = "uploaded"   -> 0
      [] s = "extracting" -> 1
      [] s = "extracted"  -> 2
      [] s = "processing" -> 3
      [] s = "done"       -> 4
      [] OTHER            -> 5

Deleted(p) == p < nextProjectId /\ p \notin DOMAIN projects

InFlight(p) == {i \in TasksOf(p) : tasks[i].pc = "post"}

DoneRows(p) == {k \in DOMAIN images[p] : images[p][k].status = "done"}

----------------------------------------------------------------------------
(* C1: over every sequence of operations a project's status never moves
   backward in the order uploaded < extracting < extracted < processing <
   done, and once the status is error no operation changes it again. *)
C1_StatusMonotoneErrorTerminal ==
    [][\A p \in ProjectIds :
          (p \in DOMAIN projects /\ p \in DOMAIN projects')
          => LET old == projects[p].status
                 new == projects'[p].status
             IN /\ (old = "error" => new = "error")
                /\ (new # "error" => StatusRank(old) <= StatusRank(new))]_vars

(* C2: in every committed state each project has processed_images <=
   total_images, and processed_images = total_images whenever its status is
   done, also across repeated generate requests. *)
C2_ProcessedWithinTotal ==
    \A p \in DOMAIN projects :
        /\ projects[p].processed_images <= projects[p].total_images
        /\ (projects[p].status = "done"
            => projects[p].processed_images = projects[p].total_images)

C2_Witness ==
    \E p \in DOMAIN projects :
        /\ projects[p].status = "done"
        /\ projects[p].total_images = 2
        /\ projects[p].processed_images = 2
        /\ taskEnd[p] = "finished"

(* C3: a project moved to processing, not deleted and with the server still
   running, is brought to done by its background task whatever fails for an
   image: while it is processing its task is still running, and when the task
   has returned every image of the project is done. *)
C3_GenerationReachesDone ==
    \A p \in DOMAIN projects :
        /\ (projects[p].status = "processing" /\ taskEnd[p] # "killed"
            => TasksOf(p) # {})
        /\ (projects[p].status = "done"
            => \A k \in DOMAIN images[p] : images[p][k].status = "done")

(* C4: a failing call of generate_alt_text returns a record (bildtyp
   "fehler") and never raises into the orchestrator: no task ends by an
   exception of generate_alt_text. *)
C4_FailureReturnsRecord ==
    \A p \in ProjectIds : taskEnd[p] \notin {"pil_error", "file_missing"}

(* C5: at most one model call is in flight for a project at any time: a
   project has at most one running task, a task is at its image pos only
   after the images before it are committed as done, and a generate request
   on a project whose status is processing starts no task. *)
C5_OneModelCallPerProject ==
    /\ [](\A p \in ProjectIds : Cardinality(TasksOf(p)) <= 1)
    /\ [](\A i \in DOMAIN tasks :
            LET t == tasks[i]
            IN (t.pc \in {"resize", "post"} /\ t.p \in DOMAIN images)
               => \A j \in 1..(t.pos - 1) : images[t.p][t.imgs[j]].status = "done")
    /\ [][\A p \in ProjectIds :
            (p \in DOMAIN projects /\ projects[p].status = "processing")
            => Cardinality(TasksOf(p))' <= Cardinality(TasksOf(p))]_vars

C5_Witness ==
    \E i \in DOMAIN tasks :
        /\ tasks[i].pc = "post"
        /\ tasks[i].pos = 2
        /\ tasks[i].p \in DOMAIN projects
        /\ projects[tasks[i].p].status = "processing"

(* C6: in every committed state, also the one a crash leaves, a project's
   processed_images equals the number of its image rows with status done. *)
C6_CounterMatchesDoneRows ==
    \A p \in DOMAIN projects :
        projects[p].processed_images = Cardinality(DoneRows(p))

C6_Witness ==
    \E p \in DOMAIN projects :
        /\ taskEnd[p] = "killed"
        /\ projects[p].total_images = 2
        /\ projects[p].processed_images = 1
        /\ Cardinality(DoneRows(p)) = 1

(* C7: after the server crashed while a project was processing, a generate
   request for that project is accepted (and its run finishes the images that
   were not done). *)
C7_ResumeAfterCrash ==
    \A p \in DOMAIN projects :
        (taskEnd[p] = "killed" /\ TasksOf(p) = {}) => GenerateAccepts(projects[p])

(* C8: once delete_project has completed for a project, its background task
   starts no model call for a further image of it, and nothing is written
   for it to the catalog or to disk any more. *)
C8_DeleteAbortsTask ==
    [][\A p \in ProjectIds :
          Deleted(p)
          => /\ Cardinality(InFlight(p))' <= Cardinality(InFlight(p))
             /\ p \notin DOMAIN projects'
             /\ p \notin DOMAIN images'
             /\ disk'[p] = disk[p]]_vars

C8_Witness ==
    \E p \in ProjectIds :
        /\ Deleted(p)
        /\ taskEnd[p] = "file_missing"
        /\ TasksOf(p) = {}

(* C9: the file at the export output path is absent, a complete earlier
   export or the complete new export, never a partially written file, at
   every point of an export and after one that failed or was interrupted. *)
C9_ExportAllOrNothing ==
    \A p \in ProjectIds : disk[p].out # "partial"

(* C10: for every image row with a non-zero xref, the text export passes to
   the writer for that xref is alt_text_edited when that is non-null (the
   empty string included), and alt_text otherwise. *)
C10_ExportUsesEditedText ==
    loop.op = "export"
    => \A k \in DOMAIN images[loop.p] :
         LET img == images[loop.p][k]
         IN img.xref # 0
            => /\ img.xref \in DOMAIN loop.map
               /\ loop.map[img.xref] =
                    (IF img.alt_text_edited # NULL THEN img.alt_text_edited ELSE img.alt_text)

----------------------------------------------------------------------------
(* Vocabulary of the writer's properties *)

\* First identifier of the synthetic range (vector_xref_counter).
SyntheticBase == 900000

\* The image XObjects of a document.
XObjectsOf(doc) == UNION {{doc[i].images[k].xref : k \in DOMAIN doc[i].images} : i \in DOMAIN doc}

\* Reading a PDF string literal back: a backslash quotes the next character.
RECURSIVE Unescape(_)
Unescape(text) ==
    IF text = <<>> THEN <<>>
    ELSE IF Head(text) = "\\" /\ Len(text) >= 2
    THEN <<text[2]>> \o Unescape(Tail(Tail(text)))
    ELSE <<Head(text)>> \o Unescape(Tail(text))

FiguresFor(x) == {f \in DOMAIN writer.figures : writer.figures[f].xref = x}

FiguresOn(page_num) == {f \in DOMAIN writer.figures : writer.figures[f].Pg = page_num}

(* C11: the writer creates no /Figure element and sets no /Alt key for a map
   key >= 900000, also when a page's image XObject has such an xref and the
   xref is a key of the map. *)
C11_NoSyntheticXref ==
    writer.pc # "off"
    => /\ \A f \in DOMAIN writer.figures : writer.figures[f].xref < SyntheticBase
       /\ \A x \in DOMAIN writer.xobject_alt : x < SyntheticBase

(* C12: for each map key that is the xref of an image XObject of the
   document, the exported PDF has exactly one /Figure element for that xref,
   its /Alt reads back as the mapped string (the literal "dekorativ" as the
   empty alt-text), and it is reachable from the StructTreeRoot through the
   /Document element's /K array; also when the XObject is used on several
   pages or under several names. *)
C12_OneFigurePerXref ==
    writer.pc = "saved"
    => \A x \in {k \in DOMAIN writer.alt_texts : writer.alt_texts[k] # NoText}
                    \cap XObjectsOf(writer.doc) :
         /\ Cardinality(FiguresFor(x)) = 1
         /\ \A f \in FiguresFor(x) :
              /\ Unescape(writer.figures[f].Alt) =
                    (IF writer.alt_texts[x] = Dekorativ THEN <<>> ELSE writer.alt_texts[x])
              /\ writer.struct_root
              /\ \E k \in DOMAIN writer.kids : writer.kids[k] = f

(* C13: on every page that receives figures, every MCID its ParentTree entry
   refers to is emitted exactly once in the rewritten content stream, as a
   /Figure <</MCID n>> BDC ... EMC wrapper around the image's draw operator,
   whatever the shape of the stream. *)
C13_McidEmittedOnce ==
    writer.pc = "saved"
    => \A e \in DOMAIN writer.nums : \A k \in DOMAIN writer.nums[e].refs :
         LET fig == writer.figures[writer.nums[e].refs[k]]
             content == writer.doc[writer.nums[e].key + 1].content
             opens == {i \in DOMAIN content : content[i] = BDC(fig.MCID)}
         IN /\ Cardinality(opens) = 1
            /\ \A i \in opens :
                 \E d \in DOMAIN content, j \in DOMAIN content :
                    /\ i < d /\ d < j
                    /\ content[d] = Do(fig.img_name)
                    /\ content[j].op = "EMC"
                    /\ \A m \in (i + 1)..(j - 1) : content[m].op # "EMC"

(* C14: on every page that receives k figures the MCIDs are exactly 0..k-1
   without repetition, in the order the images were enumerated; the page's
   /StructParents value is the key of exactly one /Nums entry, and the
   element at position i of that entry's array is the /Figure with MCID i. *)
C14_McidsIndexParentTree ==
    writer.pc = "saved"
    => \A page_num \in DOMAIN writer.page_images :
         LET items == writer.page_images[page_num]
             k == Len(items)
             entries == {e \in DOMAIN writer.nums :
                            writer.nums[e].key = writer.struct_parents[page_num]}
         IN /\ Cardinality(FiguresOn(page_num)) = k
            /\ {writer.figures[f].MCID : f \in FiguresOn(page_num)} = 0..(k - 1)
            /\ \A i \in 1..k : \E f \in FiguresOn(page_num) :
                  /\ writer.figures[f].MCID = i - 1
                  /\ writer.figures[f].xref = items[i].xref
                  /\ writer.figures[f].img_name = items[i].img_name
            /\ Cardinality(entries) = 1
            /\ \A e \in entries :
                  /\ Len(writer.nums[e].refs) = k
                  /\ \A i \in 1..k :
                        /\ writer.nums[e].refs[i] \in FiguresOn(page_num)
                        /\ writer.figures[writer.nums[e].refs[i]].MCID = i - 1

C14_Witness ==
    /\ writer.pc = "saved"
    /\ \E page_num \in DOMAIN writer.page_images :
         /\ page_num = 1
         /\ Len(writer.page_images[page_num]) = 2
         /\ Len(writer.nums) = 2
         /\ writer.struct_parents[page_num] = 1

(* C15: an export, whether it succeeds, fails or is interrupted, leaves
   every project row and every image row unchanged (alt_text,
   alt_text_edited, status, processed_images among them) and does not modify
   the source PDF. *)
C15_ExportLeavesCatalog ==
    [][(loop.op = "export" \/ loop'.op = "export")
       => /\ projects' = projects
          /\ images' = images
          /\ \A p \in ProjectIds : disk'[p].pdf = disk[p].pdf]_vars

C15_Witness ==
    \E p \in DOMAIN projects :
        /\ loop.op = "export"
        /\ loop.p = p
        /\ disk[p].out = "partial"
        /\ projects[p].status = "done"
        /\ projects[p].processed_images = 1
        /\ images[p][1].alt_text_edited = "E"

(* C16: when a disk write fails while an image is materialized during
   upload, the upload ends in status error: no project is in status
   extracted with an image of its document missing from its rows. *)
C16_StorageFullEndsInError ==
    \A p \in DOMAIN projects :
        projects[p].status = "extracted"
        => projects[p].total_images = Len(ImagesIn(disk[p].pdf))

----------------------------------------------------------------------------
(* Vocabulary of the parser's properties *)

Terminators == {".", "!", "?"}

\* A sentence terminator (". ", "! " or "? ") at zero-based index i of text.
TerminatorAt(text, i) ==
    i + 2 <= Len(text) /\ text[i + 1] \in Terminators /\ text[i + 2] = " "

\* The parsed JSON object the returned record was made of, if any.
UsedObject ==
    LET text == TextOf(parser.result)
    IN IF parser.out.strategy = "fenced" THEN text.matches[Len(text.matches)]
       ELSE IF parser.out.strategy = "outer" THEN text.outer
       ELSE NoJson

\* The chosen alt-text before any truncation.
Untruncated ==
    IF parser.out.strategy \in {"fenced", "outer"}
    THEN (IF UsedObject.alt_text = <<>> THEN <<>>
          ELSE Compose(UsedObject.alt_text, UsedObject.langbeschreibung))
    ELSE parser.out.alt_text

(* C17: every alt-text the parser returns, on the JSON paths, the thinking
   salvage and the fallback, has length <= 400; a text longer than 400 with
   no sentence terminator at a position > 80 within its first 400 characters
   is hard-cut at 400. *)
C17_AltTextAtMost400 ==
    parser.pc = "returned"
    => /\ Len(parser.out.alt_text) <= MAX_ALT_TEXT_LENGTH
       /\ (/\ Len(Untruncated) > MAX_ALT_TEXT_LENGTH
           /\ \A i \in (SentenceFloor + 1)..(MAX_ALT_TEXT_LENGTH - 2) : ~TerminatorAt(Untruncated, i))
          => parser.out.alt_text = Take(Untruncated, MAX_ALT_TEXT_LENGTH)

(* C18: for every alt-text longer than 400 characters that contains a
   sentence terminator at a position past index 80, the text the parser
   returns ends on a terminator character. *)
C18_EndsOnTerminator ==
    parser.pc = "returned"
    => ((/\ Len(Untruncated) > MAX_ALT_TEXT_LENGTH
         /\ \E i \in (SentenceFloor + 1)..Len(Untruncated) : TerminatorAt(Untruncated, i))
        => /\ parser.out.alt_text # <<>>
           /\ parser.out.alt_text[Len(parser.out.alt_text)] \in Terminators)

(* C19: in every record the parser returns, ist_dekorativ is true if and only
   if the parsed JSON has ist_dekorativ true, or the chosen alt-text contains
   the word "dekorativ", or bildtyp is "dekorativ"; on the JSON paths, the
   thinking salvage and the fallback. *)
C19_DekorativEquivalence ==
    parser.pc = "returned"
    => (parser.out.ist_dekorativ
        <=> \/ UsedObject.ist_dekorativ
            \/ Contains(Lower(parser.out.alt_text), Dekorativ)
            \/ parser.out.bildtyp = "dekorativ")

(* C20: the strategies are tried in the order fenced-JSON scan, outer-brace
   scan, thinking salvage, fallback, and the first that succeeds decides:
   when no fenced match of the response parses with an alt_text and the
   substring from its first "{" to its last "}" parses with a non-null
   alt_text, the outer-brace result is returned; the thinking salvage decides
   only when both JSON scans of the cleaned response have failed. *)
C20_FirstSuccessDecides ==
    parser.pc = "returned"
    => LET response == parser.result.response
           fenced_ok == \E m \in DOMAIN response.matches :
                            response.matches[m].kind = "object" /\ response.matches[m].alt_given
           outer_ok == response.outer.kind = "object" /\ response.outer.alt_given
       IN /\ (~response.empty /\ ~fenced_ok /\ outer_ok)
             => [parser.out EXCEPT !.strategy = "outer"] = JsonRecord("outer", response.outer)
          /\ parser.out.strategy = "salvage" => (~fenced_ok /\ ~outer_ok)

----------------------------------------------------------------------------
(* Vocabulary of the clusterer's properties *)

\* Every point of r is a point of page_rect (a rectangle with no area has none).
Within(r, page_rect) ==
    \/ is_empty(r)
    \/ /\ page_rect.x0 <= r.x0 /\ r.x1 <= page_rect.x1
       /\ page_rect.y0 <= r.y0 /\ r.y1 <= page_rect.y1

\* The pre-filtered items no cluster holds yet.
Unassigned == (DOMAIN clusterer.drawing_data) \ (clusterer.used \cup clusterer.cluster)

(* C21: every rectangle _cluster_drawings returns comes from a cluster of at
   least 2 draw items whose item counts sum to at least 5 and whose bounding
   box before padding is at least 50 wide and 50 tall, and the returned
   padded rectangle lies inside the page rectangle. *)
C21_ClustersAreSignificant ==
    clusterer.pc # "off"
    => /\ Len(clusterer.origin) = Len(clusterer.clusters)
       /\ \A n \in DOMAIN clusterer.clusters :
            LET from == clusterer.origin[n]
                box == from.cluster_rect
            IN /\ Cardinality(from.cluster) >= 2
               /\ SumItems(clusterer.drawing_data, from.cluster) >= 5
               /\ box.x1 - box.x0 >= 50
               /\ box.y1 - box.y0 >= 50
               /\ Within(clusterer.clusters[n], clusterer.page_rect)

C21_Witness ==
    /\ clusterer.pc = "done"
    /\ \E n \in DOMAIN clusterer.clusters :
         /\ clusterer.origin[n].cluster_rect.x0 - pad < clusterer.page_rect.x0
         /\ clusterer.clusters[n].x0 = clusterer.page_rect.x0
         /\ ~is_empty(clusterer.clusters[n])

(* C31: every draw item that passes the pre-filter is assigned to exactly one
   cluster by the seed loop, whatever the order of the items: the clusters
   closed so far share no item, together they are the used items, an open
   cluster holds no used item, and when the function returns every
   pre-filtered item is in a closed cluster. *)
C31_EachItemInOneCluster ==
    clusterer.pc # "off"
    => /\ \A a, b \in DOMAIN clusterer.closed :
            a # b => clusterer.closed[a] \cap clusterer.closed[b] = {}
       /\ UNION {clusterer.closed[a] : a \in DOMAIN clusterer.closed} = clusterer.used
       /\ clusterer.pc = "expand" => clusterer.cluster \cap clusterer.used = {}
       /\ clusterer.pc = "done" => clusterer.used = DOMAIN clusterer.drawing_data

C31_Witness ==
    /\ clusterer.pc = "done"
    /\ Len(clusterer.drawing_data) = 3
    /\ Len(clusterer.closed) = 2
    /\ clusterer.closed[1] = {1, 3}
    /\ clusterer.closed[2] = {2}

(* C29: for every list of draw items the expansion loop of a cluster
   terminates, and when the cluster is closed no still-unassigned
   pre-filtered item intersects the cluster's bounding box expanded by 50 on
   every side. *)
C29_ExpansionSettles ==
    /\ [](clusterer.pc = "expand" /\ ~clusterer.changed
          => \A j \in Unassigned :
               ~intersects(Grown(clusterer.cluster_rect, 50), clusterer.drawing_data[j].rect))
    /\ (clusterer.pc = "expand") ~> (clusterer.pc = "scan")

C29_Witness ==
    /\ clusterer.pc = "expand"
    /\ ~clusterer.changed
    /\ clusterer.passes >= 3
    /\ Cardinality(clusterer.cluster) = 3

----------------------------------------------------------------------------
(* Vocabulary of the extractor's properties *)

\* The descriptors of vector graphics, in the order they were appended.
VectorDescriptors == SelectSeq(extractor.images, LAMBDA d : d.vector)

\* main.py 366-373: the rows upload_pdf inserts for the descriptors; the path
\* of an image is its file name under the project's directory.
InsertedRows(descriptors) ==
    [n \in DOMAIN descriptors |->
        [page_number |-> descriptors[n].page_number,
         image_index |-> descriptors[n].image_index,
         image_path |-> <<"1", "/">> \o descriptors[n].image_filename,
         xref |-> descriptors[n].xref]]

(* C22: for every page, every cluster found on it and every on-page rectangle
   of any raster image of that page: if the intersection of the cluster's
   rectangle with the raster rectangle covers more than half of the cluster's
   rectangle, no descriptor is created for the cluster. *)
C22_CoveredClusterDropped ==
    extractor.pc # "off"
    => \A n \in DOMAIN extractor.rendered :
         LET made == extractor.rendered[n]
             image_list == extractor.doc[made.page_num + 1].image_list
         IN \A m \in DOMAIN image_list : \A q \in DOMAIN image_list[m].rects :
              ~(2 * Area(Intersect(made.cluster_rect, image_list[m].rects[q]))
                    > Area(made.cluster_rect))

(* C23: no two descriptors of one extraction share both page_number and
   image_index, and no two share an image file name, also when raster images
   are skipped and when a vector render fails; the same holds for the image
   rows inserted for them. *)
C23_DescriptorsUnique ==
    extractor.pc # "off"
    => LET rows == InsertedRows(extractor.images)
       IN \A a, b \in DOMAIN extractor.images :
            a # b =>
              /\ ~(/\ extractor.images[a].page_number = extractor.images[b].page_number
                   /\ extractor.images[a].image_index = extractor.images[b].image_index)
              /\ extractor.images[a].image_filename # extractor.images[b].image_filename
              /\ ~(/\ rows[a].page_number = rows[b].page_number
                   /\ rows[a].image_index = rows[b].image_index)
              /\ rows[a].image_path # rows[b].image_path

C23_Witness ==
    /\ extractor.pc = "done"
    /\ Len(extractor.doc[1].image_list) = 2
    /\ extractor.doc[1].image_list[1].decoded = "none"
    /\ \E a, b \in DOMAIN extractor.images :
         /\ ~extractor.images[a].vector /\ extractor.images[a].image_index = 2
         /\ extractor.images[b].vector /\ extractor.images[b].image_index = 4
    /\ Len(extractor.images) = 2

(* C30: within one extraction the synthetic xrefs of the vector descriptors
   are all >= 900000, pairwise distinct and strictly increasing in discovery
   order across all pages; the counter is not reset between pages and is not
   advanced by a cluster that is dropped or fails to render. *)
C30_SyntheticXrefsIncrease ==
    extractor.pc # "off"
    => /\ \A n \in DOMAIN VectorDescriptors : VectorDescriptors[n].xref >= SyntheticBase
       /\ \A a, b \in DOMAIN VectorDescriptors :
            a < b => VectorDescriptors[a].xref < VectorDescriptors[b].xref
       /\ extractor.vector_xref_counter = SyntheticBase + Len(VectorDescriptors)

C30_Witness ==
    /\ extractor.pc = "done"
    /\ \E a, b \in DOMAIN extractor.images :
         /\ extractor.images[a].vector /\ extractor.images[a].page_number = 1
         /\ extractor.images[b].vector /\ extractor.images[b].page_number = 2
         /\ extractor.images[b].xref = 900002

----------------------------------------------------------------------------
(* C24: within one background run the images are processed in ascending
   (page_number, image_index) order: when an image is set to processing the
   results of all images before it are committed and the images after it
   are still pending; and the status done is written only when every image
   of the project has been committed. *)
C24_ProcessedInOrder ==
    [][\A p \in DOMAIN images \cap DOMAIN images' :
         /\ \A k \in DOMAIN images'[p] :
              (images'[p][k].status = "processing" /\ images[p][k].status # "processing")
              => /\ \A j \in 1..(k - 1) : images'[p][j].status = "done"
                 /\ \A j \in (k + 1)..Len(images'[p]) : images'[p][j].status = "pending"
         /\ (p \in DOMAIN projects /\ p \in DOMAIN projects'
             /\ projects'[p].status = "done" /\ projects[p].status # "done")
            => \A k \in DOMAIN images'[p] : images'[p][k].status = "done"]_vars

C24_Witness ==
    \E p \in DOMAIN images :
        /\ Len(images[p]) = 2
        /\ images[p][1].status = "done"
        /\ images[p][2].status = "processing"
        /\ projects[p].status = "processing"

----------------------------------------------------------------------------
(* C25: running the writer twice on the same source PDF with the same map
   gives outputs with the same logical structure (pages, figures, /Alt
   values, MCIDs and ParentTree entries, elements numbered by creation
   order), and the first run leaves the source PDF as the second run reads
   it. *)
C25_RewriteSameStructure ==
    /\ [][(writer.pc # "off" /\ writer'.pc # "off") => writer'.input = writer.input]_vars
    /\ []((writer.pc = "saved" /\ writer.run = 2) => writer.output = writer.first)

C25_Witness ==
    /\ writer.pc = "saved"
    /\ writer.run = 2
    /\ Len(writer.output.figures) = 2
    /\ \E i \in DOMAIN writer.output.pages : \E m \in DOMAIN writer.output.pages[i].content :
          writer.output.pages[i].content[m].op = "BDC"

(* C26: when no page of the source has an image XObject whose xref is a key
   of the map with a non-null value, the writer saves the document without
   any structure object: no /StructTreeRoot and no /MarkInfo in the catalog,
   no /StructParents on a page and no rewritten content stream. *)
C26_NothingMappedNothingChanged ==
    (/\ writer.pc = "saved"
     /\ \A i \in DOMAIN writer.input.pages : \A k \in DOMAIN writer.input.pages[i].images :
           ~Mapped(writer.alt_texts, writer.input.pages[i].images[k].xref))
    => /\ ~writer.output.struct_root
       /\ ~writer.output.mark_info
       /\ writer.output.figures = <<>>
       /\ writer.output.nums = <<>>
       /\ writer.output.struct_parents = <<>>
       /\ \A i \in DOMAIN writer.input.pages :
            /\ writer.output.pages[i].content = writer.input.pages[i].content
            /\ writer.output.pages[i].streams = writer.input.pages[i].streams

(* C28: an image whose stored alt-text is the string "dekorativ" keeps that
   string where it is stored (the map handed to the writer is not changed),
   and on export both its /Figure element and its image XObject get an
   empty /Alt value. *)
C28_DekorativExportsEmpty ==
    /\ [][(writer.pc # "off" /\ writer'.pc # "off") => writer'.alt_texts = writer.alt_texts]_vars
    /\ [](writer.pc = "saved"
          => \A x \in XObjectsOf(writer.input.pages) :
               (x \in DOMAIN writer.alt_texts /\ writer.alt_texts[x] = Dekorativ)
               => /\ FiguresFor(x) # {}
                  /\ \A f \in FiguresFor(x) : writer.output.figures[f].Alt = <<>>
                  /\ x \in DOMAIN writer.output.xobject_alt
                  /\ writer.output.xobject_alt[x] = <<>>)

C28_Witness ==
    /\ writer.pc = "saved"
    /\ 7 \in DOMAIN writer.alt_texts
    /\ writer.alt_texts[7] = Dekorativ
    /\ FiguresFor(7) # {}
    /\ writer.output.struct_root

----------------------------------------------------------------------------
(* Vocabulary of the escaper's properties: reading a PDF literal string *)

\* The character a backslash followed by c stands for: "\n" is the line
\* feed; before a character that names no escape the backslash is ignored.
EscapeOf(c) == IF c = "n" THEN "\n" ELSE c

\* Reads the literal that opens before position i; depth counts the open
\* parentheses.  closed: the closing parenthesis was found; rest: the
\* characters after it.
RECURSIVE ReadLiteralFrom(_, _, _, _)
ReadLiteralFrom(s, i, depth, value) ==
    IF i > Len(s) THEN [closed |-> FALSE, value |-> value, rest |-> 0]
    ELSE IF s[i] = "\\"
    THEN IF i = Len(s)
         THEN [closed |-> FALSE, value |-> value, rest |-> 0]
         ELSE ReadLiteralFrom(s, i + 2, depth, Append(value, EscapeOf(s[i + 1])))
    ELSE IF s[i] = "("
    THEN ReadLiteralFrom(s, i + 1, depth + 1, Append(value, "("))
    ELSE IF s[i] = ")"
    THEN IF depth = 1
         THEN [closed |-> TRUE, value |-> value, rest |-> Len(s) - i]
         ELSE ReadLiteralFrom(s, i + 1, depth - 1, Append(value, ")"))
    ELSE ReadLiteralFrom(s, i + 1, depth, Append(value, s[i]))

ReadLiteral(s) == ReadLiteralFrom(s, 2, 1, <<>>)

\* The number of backslashes directly before position i
RECURSIVE BackslashesBefore(_, _)
BackslashesBefore(s, i) ==
    IF i > 1 /\ s[i - 1] = "\\" THEN 1 + BackslashesBefore(s, i - 1) ELSE 0

(* C27: for every alt-text over an alphabet with backslash, "(" and ")",
   reading the result of _escape_pdf_string by the rules of PDF literal
   strings gives back the text, and every delimiter in the result is
   escaped, so that the result can be wrapped in "(" and ")". *)
C27_EscapeRoundTrip ==
    escaper.pc = "done"
    => LET read == ReadLiteral(<<"(">> \o escaper.out \o <<")">>)
       IN /\ read.closed
          /\ read.rest = 0
          /\ read.value = escaper.text
          /\ \A i \in DOMAIN escaper.out :
               escaper.out[i] \in {"(", ")"} => BackslashesBefore(escaper.out, i) % 2 = 1
          /\ BackslashesBefore(escaper.out, Len(escaper.out) + 1) % 2 = 0

C27_Witness ==
    /\ escaper.pc = "done"
    /\ escaper.text = <<")", "\\", "(">>
    /\ escaper.out = <<"\\", ")", "\\", "\\", "\\", "(">>

----------------------------------------------------------------------------
(* C32: background generation never changes alt_text_edited: under every
   interleaving of update_alt_text requests with a running task, a step that
   changes the alt_text_edited of a stored image row is no step of a task
   (it leaves the tasks and every project row as they are), so an edit saved
   before, during or after the model call is still stored when the project
   reaches done. *)
C32_GenerationKeepsEdits ==
    [][\A p \in DOMAIN images \cap DOMAIN images' :
         \A k \in DOMAIN images[p] :
            images'[p][k].alt_text_edited # images[p][k].alt_text_edited
            => /\ tasks' = tasks
               /\ projects' = projects]_vars

C32_Witness ==
    \E p \in DOMAIN images :
        /\ projects[p].status = "done"
        /\ taskEnd[p] = "finished"
        /\ Len(images[p]) = 2
        /\ images[p][1].alt_text = "A"
        /\ images[p][1].alt_text_edited = "E"
        /\ images[p][2].status = "done"

----------------------------------------------------------------------------
\* The attempts of an address that lie within the last 300 seconds.
AttemptsHeld(client_ip) ==
    Len(SelectSeq(limiter.login_attempts[client_ip],
                  LAMBDA t : limiter.clock - t < 300))

(* C33: for every client address at most 5 attempts are ever held within a
   window of 300 seconds: once 5 failed attempts lie within the last 300
   seconds every login request of the address is rejected before its
   credentials are checked, and a rejected request records no attempt. *)
C33_AtMostFiveAttempts ==
    limiter.pc # "off"
    => \A client_ip \in Addresses : AttemptsHeld(client_ip) <= 5

----------------------------------------------------------------------------
\* The tokens of a user that no request has used up or replaced.
UnusedTokens(user_id) ==
    {n \in DOMAIN accounts.password_resets :
        accounts.password_resets[n].user_id = user_id /\ accounts.password_resets[n].used = 0}

(* C34: over every sequence of forgot-password and reset-password requests
   each user has at most one unused reset token at any time, and a given
   token changes a password at most once: a token that has changed a
   password is marked used, so a second reset-password request with it
   fails and leaves the password hash as it is. *)
C34_TokenUsedOnce ==
    accounts.pc # "off"
    => /\ \A user_id \in UserIds : Cardinality(UnusedTokens(user_id)) <= 1
       /\ \A token \in DOMAIN accounts.changed : accounts.changed[token] <= 1
       /\ \A n \in DOMAIN accounts.password_resets :
            accounts.changed[n] = 1 => accounts.password_resets[n].used = 1

C34_Witness ==
    /\ accounts.pc = "serving"
    /\ accounts.last.status = 400
    /\ accounts.last.token \in DOMAIN accounts.password_resets
    /\ accounts.changed[accounts.last.token] = 1
    /\ accounts.password_resets[accounts.last.token].expires_at >= accounts.clock
    /\ \E user_id \in UserIds :
         /\ Cardinality(UnusedTokens(user_id)) = 1
         /\ \E n \in DOMAIN accounts.password_resets :
              /\ accounts.password_resets[n].user_id = user_id
              /\ accounts.password_resets[n].used = 1
              /\ accounts.changed[n] = 0

----------------------------------------------------------------------------
\* A step is a request of the user that names the project or its image: one
\* of get, status, image file, delete, generate, alt-text edit and export
\* (each leaves the user and the project it names in last).
NamingRequest(user_id, project_id) ==
    \/ GetProjectAs(user_id, project_id)
    \/ StatusAs(user_id, project_id)
    \/ ImageFileAs(user_id, project_id, 1)
    \/ DeleteAs(user_id, project_id)
    \/ GenerateAs(user_id, project_id)
    \/ \E text \in OwnedEdits : EditAs(user_id, project_id, 1, text)
    \/ ExportAs(user_id, project_id)

(* C35: for two distinct users A and B, every project or image request of B
   (get, status, delete, generate, export, image file, alt-text edit) that
   names a project or image of A is answered 404 and leaves every project
   row, image row and file, A's among them, as it was. *)
C35_ForeignRequestsGet404 ==
    [][tenancy.pc # "off"
       => \A user_id \in UserIds, project_id \in DOMAIN tenancy.projects :
            (/\ tenancy.projects[project_id].user_id # user_id
             /\ tenancy'.last.user_id = user_id
             /\ tenancy'.last.project_id = project_id
             /\ NamingRequest(user_id, project_id))
            => /\ tenancy'.last.status = 404
               /\ tenancy'.projects = tenancy.projects
               /\ tenancy'.images = tenancy.images
               /\ tenancy'.disk = tenancy.disk]_vars

C35_Witness ==
    /\ tenancy.pc = "serving"
    /\ tenancy.last.op = "delete"
    /\ tenancy.last.status = 404
    /\ tenancy.last.project_id \in DOMAIN tenancy.projects
    /\ tenancy.projects[tenancy.last.project_id].user_id # tenancy.last.user_id
    /\ tenancy.projects[tenancy.last.project_id].status = "processing"
    /\ Len(tenancy.images[tenancy.last.project_id]) = 1
    /\ tenancy.images[tenancy.last.project_id][1].alt_text_edited = "E"
    /\ tenancy.disk[tenancy.last.project_id].imgs
    /\ \E own \in DOMAIN tenancy.projects : tenancy.projects[own].user_id = tenancy.last.user_id

----------------------------------------------------------------------------
\* The statuses of a project whose upload ended in extracted.
PastExtraction == {"extracted", "processing", "done"}

(* C36: after every upload that ends in status extracted the project's
   total_images is the number of image rows stored for it, every one of the
   rows is pending and processed_images is 0; and no later operation other
   than the deletion of the project changes total_images or the number of
   its image rows. *)
C36_TotalMatchesRows ==
    /\ [](\A p \in DOMAIN projects :
            /\ projects[p].status = "extracted"
               => /\ projects[p].total_images = Len(images[p])
                  /\ \A k \in DOMAIN images[p] : images[p][k].status = "pending"
                  /\ projects[p].processed_images = 0
            /\ projects[p].status \in PastExtraction
               => projects[p].total_images = Len(images[p]))
    /\ [][\A p \in DOMAIN projects \cap DOMAIN projects' :
            projects[p].status \in PastExtraction
            => /\ projects'[p].total_images = projects[p].total_images
               /\ Len(images'[p]) = Len(images[p])]_vars

C36_Witness ==
    \E p \in DOMAIN projects :
        /\ projects[p].status = "done"
        /\ projects[p].total_images = 2
        /\ Len(images[p]) = 2
        /\ images[p][1].alt_text_edited = "E"
        /\ images[p][2].image_type = "fehler"
        /\ disk[p].out = "complete"

====
